---- MODULE Spec2Model ----
(***************************************************************************)
(* Fourier/Galerkin Transformer operators (libs/model.py).                 *)
(*                                                                         *)
(* The model follows one operator object through its life: a configuration *)
(* is handed to __init__, which runs _get_setting and then the builders of *)
(* _initialize one after another (each may raise and abort construction),  *)
(* and a built operator then evaluates forward passes stage by stage.      *)
(*                                                                         *)
(* Tensors are abstracted to their spatial resolution and channel width;   *)
(* the primary prediction additionally carries its cells, so that inverse  *)
(* normalisation and zero padding are visible cell by cell.                *)
(*                                                                         *)
(* libs/layers.py (SimpleAttention, Identity, the scaler blocks, the       *)
(* spectral convolutions) is not among the sources; the few facts the      *)
(* model needs of it are taken from the written specification and are      *)
(* marked as such where they are defined.                                  *)
(***************************************************************************)
EXTENDS Integers, Sequences, FiniteSets, TLC

VARIABLES
    config,     \* self.config: the keyword arguments of __init__
    pc,         \* position of the constructor / of the forward pass
    self,       \* attributes and sub-modules of the operator built so far
    err,        \* the exception that ended construction or a forward pass
    inputs,     \* arguments of the running (or last) forward call
    x,          \* the tensor the forward pass is transforming
    trace,      \* stages the running (or last) forward pass has executed
    out         \* the dict returned by the last completed forward pass

vars == <<config, pc, self, err, inputs, x, trace, out>>

----------------------------------------------------------------------------
(* Python values *)

\* An optional value: None, or Some(v).  self.config is a
\* defaultdict(lambda: None), so self.config[key] of a key the caller left
\* out reads as None.
None == << >>
Some(v) == <<v>>
Val(o) == o[1]

\* Python truthiness of an optional value whose values are non-zero numbers,
\* non-empty strings or objects.
Truthy(o) == o # None

\* Python truthiness of an optional flag (None, False or True)
IsTrue(o) == o # None /\ Val(o) = TRUE

\* _get_setting turns into attributes the keys the caller supplied and the
\* keys of ADDITIONAL_ATTR; reading self.<key> for any other key raises
\* AttributeError (nn.Module.__getattr__).
ADDITIONAL_ATTR ==
    {"normalizer", "raw_laplacian", "return_ortho", "residual_type", "norm_type",
     "boundary_condition", "upscaler_size", "downscaler_size",
     "regressor_activation", "attn_activation", "downscaler_activation",
     "upscaler_activation", "encoder_dropout", "decoder_dropout"}

\* c.omitted: the keys the caller left out of the keyword arguments
Missing(c, key) == key \in c.omitted /\ key \notin ADDITIONAL_ATTR

NoErr == [kind |-> "none", msg |-> ""]
Raise(kind, msg) == [kind |-> kind, msg |-> msg]

----------------------------------------------------------------------------
(* Bounds of the model *)

\* resolution n of the (n, n) input node grid of a 2D forward pass
NodeRes == 5

\* sequence length of a 1D forward pass
SeqLen == 4

\* num_ft_layers the caller configures
NumFtLayers == 2

\* the affine map of the normalizer handed in by the caller:
\* inverse_transform(v) = v * NormStd + NormMean
NormStd == 2
NormMean == 3

\* num_regressor_layers the caller configures
NumRegressorLayers == 2

----------------------------------------------------------------------------
(* Configurations *)

Operators == {"FourierTransformer", "FourierTransformer2D"}

AttentionChoices == {"fourier", "official", "bogus"}
DecoderChoices == {"pointwise", "ifft", "ifft2", "attention", "bogus"}
HeadChoices == {2, 3}
HiddenChoices == {10}
SpacialDimChoices == {None, Some(1), Some(2), Some(3)}
DropoutChoices == {None, Some(10)}          \* percent
FreqTargetChoices == {None, Some(0), Some(1)}
SizeChoices == {None, Some(2)}              \* scaling factor
DownModeChoices == {None, Some("conv"), Some("interp"), Some("bogus")}
UpModeChoices == {None, Some("conv"), Some("interp"), Some("bogus")}
NormalizerChoices == {None, Some("normalizer")}
BoundaryChoices == {None, Some("dirichlet"), Some("neumann")}

FlagChoices == {None, Some(FALSE), Some(TRUE)}
ResidualChoices == {None, Some("add"), Some("minus")}

\* the keys the model lets the caller leave out, one at a time
OmittableKeys == {"dim_feedforward", "return_attn_weight", "return_ortho",
                  "spacial_dim", "spacial_residual", "last_activation"}

\* the options of the optional outputs and of the layer variants, all unset
NoOptions ==
    [return_ortho : {None},
     return_attn_weight : {None},
     spacial_residual : {None},
     residual_type : {None},
     last_activation : {None},
     num_regressor_layers : {NumRegressorLayers},
     omitted : {{}}]

\* a configuration record and a record of further keys, as one record
Merge(a, b) ==
    [k \in DOMAIN a \cup DOMAIN b |-> IF k \in DOMAIN b THEN b[k] ELSE a[k]]

\* No graph stage is configured (num_feat_layers = 0).
\* Keys only FourierTransformer2D reads are None for the 1D operator, and
\* n_freq_targets, which only FourierTransformer reads, is supplied as 0
\* for the 2D one.
CoreSpace ==
    [op : {"FourierTransformer"},
     attention_type : AttentionChoices,
     decoder_type : DecoderChoices,
     n_head : HeadChoices,
     n_hidden : HiddenChoices,
     pos_dim : {1, 2},
     spacial_dim : SpacialDimChoices,
     encoder_dropout : DropoutChoices,
     n_freq_targets : FreqTargetChoices,
     num_ft_layers : {NumFtLayers},
     feat_extract_type : {None},
     num_feat_layers : {0},
     upscaler_size : {None},
     downscaler_size : {None},
     downsample_mode : {None},
     upsample_mode : {None},
     normalizer : NormalizerChoices,
     boundary_condition : {None}]
    \cup
    [op : {"FourierTransformer2D"},
     attention_type : AttentionChoices,
     decoder_type : DecoderChoices,
     n_head : HeadChoices,
     n_hidden : HiddenChoices,
     pos_dim : {2},
     spacial_dim : SpacialDimChoices,
     encoder_dropout : DropoutChoices,
     n_freq_targets : {Some(0)},
     num_ft_layers : {NumFtLayers},
     feat_extract_type : {None},
     num_feat_layers : {0},
     upscaler_size : SizeChoices,
     downscaler_size : SizeChoices,
     downsample_mode : DownModeChoices,
     upsample_mode : UpModeChoices,
     normalizer : NormalizerChoices,
     boundary_condition : BoundaryChoices]

ConfigSpace == {Merge(c, o) : c \in CoreSpace, o \in NoOptions}

\* A configuration every builder accepts, whatever the operator.
PlainBuild(c) ==
    /\ c.attention_type = "fourier"
    /\ c.n_head = 2
    /\ c.encoder_dropout # None
    /\ c.spacial_dim = Some(IF c.op = "FourierTransformer" THEN 1 ELSE 2)
    /\ c.decoder_type \in {"pointwise", "ifft", "ifft2"}
    /\ c.downsample_mode \in {None, Some("interp")}
    /\ c.upsample_mode \in {None, Some("interp")}

\* The configurations explored: every combination of the keys construction
\* reads (the keys only forward reads left unset), and every combination of
\* the keys forward reads on top of a plain build.
Configs ==
    {c \in ConfigSpace :
        \/ c.normalizer = None /\ c.boundary_condition = None
        \/ PlainBuild(c)}

\* The configurations the options are explored on: every builder succeeds
\* up to the choice of the encoder layer class, the scaler is configured or
\* not, and no normalizer or boundary condition is set.
OptionBase(c) ==
    /\ c.attention_type \in {"fourier", "official"}
    /\ c.n_head = 2
    /\ c.encoder_dropout # None
    /\ c.pos_dim = (IF c.op = "FourierTransformer" THEN 1 ELSE 2)
    /\ c.spacial_dim = Some(c.pos_dim)
    /\ c.decoder_type \in {"pointwise",
                           IF c.op = "FourierTransformer" THEN "ifft" ELSE "ifft2"}
    /\ c.n_freq_targets # None
    /\ c.upscaler_size = c.downscaler_size
    /\ c.downsample_mode = (IF c.upscaler_size = None THEN None ELSE Some("interp"))
    /\ c.upsample_mode = c.downsample_mode
    /\ c.normalizer = None
    /\ c.boundary_condition = None

OptionSpace ==
    [return_ortho : {None, Some(TRUE)},
     return_attn_weight : FlagChoices,
     spacial_residual : {None, Some(TRUE)},
     residual_type : ResidualChoices,
     last_activation : FlagChoices,
     num_regressor_layers : {NumRegressorLayers},
     omitted : {{}}]

\* spacial_residual is read by FourierTransformer only, last_activation by
\* the spectral decoders only
OptionFits(c, o) ==
    /\ c.op = "FourierTransformer2D" => o.spacial_residual = None
    /\ c.decoder_type = "pointwise" => o.last_activation = None

\* every combination of the options on an option base, all keys supplied;
\* and every option base with one key left out and no option set
OptionConfigs ==
    {Merge(c, o) : <<c, o>> \in {b \in {a \in CoreSpace : OptionBase(a)} \X OptionSpace :
                                    OptionFits(b[1], b[2])}}
    \cup
    {[Merge(c, o) EXCEPT !.omitted = {k},
                         !.spacial_dim = IF k = "spacial_dim" THEN None ELSE @] :
        <<c, o, k>> \in {a \in CoreSpace : OptionBase(a) /\ a.attention_type = "fourier"}
                         \X NoOptions \X OmittableKeys}

----------------------------------------------------------------------------
(* Sub-module constructors.  Each returns [err, val]: the exception raised *)
(* (NoErr if none) and the module built.                                   *)

Built(v) == [err |-> NoErr, val |-> v]
Failed(kind, msg, v) == [err |-> Raise(kind, msg), val |-> v]

NoLayer == [class |-> "unbuilt", d_model |-> 0, n_head |-> 0, pos_dim |-> 0,
            attention_type |-> "", dropout |-> 0, attn_weight |-> None,
            residual_type |-> None, add_pos_emb |-> FALSE]

\* the keyword arguments of FourierTransformerEncoderLayer.__init__ that
\* neither operator passes, at their defaults: residual_type='add',
\* pos_emb=False
DefaultResidualType == Some("add")
DefaultPosEmb == FALSE

\* SimpleAttention.__init__ and torch's MultiheadAttention.__init__: each
\* head works on d_model / n_head channels, and construction fails when the
\* head count does not divide the hidden width.
HeadsDivide(d_model, n_head) == d_model % n_head = 0

\* nn.Dropout(p) compares p with 0 and 1, which raises for p = None.
DropoutInitOk(p) == p # None

\* FourierTransformerEncoderLayer.__init__
FourierTransformerEncoderLayerInit(d_model, n_head, pos_dim, attention_type, dropout, attn_weight, residual_type, pos_emb) ==
    LET dp0 == IF dropout = None THEN 10 ELSE Val(dropout)
        dp == IF attention_type \in {"linear", "softmax"} THEN 10 ELSE dp0
        layer == [class |-> "FourierTransformerEncoderLayer",
                  d_model |-> d_model, n_head |-> n_head, pos_dim |-> pos_dim,
                  attention_type |-> attention_type, dropout |-> dp,
                  attn_weight |-> attn_weight, residual_type |-> residual_type,
                  add_pos_emb |-> pos_emb]
    IN  IF ~HeadsDivide(d_model, n_head)
        THEN Failed("AssertionError", "n_head does not divide d_model", NoLayer)
        ELSE Built(layer)

\* TransformerEncoderLayer.__init__ with the attention module built without
\* its head-count check (a fault C4 must detect)
TransformerEncoderLayerInit_NoHeadCheck(d_model, nhead, dropout, attn_weight) ==
    IF ~DropoutInitOk(dropout)
    THEN Failed("TypeError", "dropout probability is None", NoLayer)
    ELSE Built([class |-> "TransformerEncoderLayer",
                d_model |-> d_model, n_head |-> nhead, pos_dim |-> 0,
                attention_type |-> "official", dropout |-> Val(dropout),
                attn_weight |-> attn_weight, residual_type |-> Some("add"),
                add_pos_emb |-> FALSE])

\* TransformerEncoderLayer.__init__.  The layer has no residual_type and no
\* positional encoding: its forward always computes src + dropout1(src2).
TransformerEncoderLayerInit(d_model, nhead, dropout, attn_weight) ==
    IF ~HeadsDivide(d_model, nhead)
    THEN Failed("AssertionError", "embed_dim must be divisible by num_heads", NoLayer)
    ELSE IF ~DropoutInitOk(dropout)
    THEN Failed("TypeError", "dropout probability is None", NoLayer)
    ELSE Built([class |-> "TransformerEncoderLayer",
                d_model |-> d_model, n_head |-> nhead, pos_dim |-> 0,
                attention_type |-> "official", dropout |-> Val(dropout),
                attn_weight |-> attn_weight, residual_type |-> Some("add"),
                add_pos_emb |-> FALSE])

NoRegressor == [class |-> "unbuilt", spacial_dim |-> None,
                normalizer |-> None, xavier |-> FALSE, activations |-> << >>]

\* PointwiseRegressor.__init__
PointwiseRegressorInit(spacial_dim) ==
    Built([class |-> "PointwiseRegressor", spacial_dim |-> spacial_dim,
           normalizer |-> None, xavier |-> FALSE, activations |-> << >>])

\* the keyword argument last_activation of SpectralRegressor.__init__ at its
\* default (True), for a caller that does not pass it
DefaultLastActivation == Some(TRUE)

\* SpectralRegressor.__init__: the activation of each spectral layer
\*     if not last_activation: self.spectral_conv[-1].activation = Identity()
SpectralActivations(num_spectral_layers, last_activation) ==
    [i \in 1..num_spectral_layers |->
        IF i = num_spectral_layers /\ ~IsTrue(last_activation)
        THEN "Identity" ELSE "activation"]

\* SpectralRegressor.__init__
SpectralRegressorInit(spacial_dim, normalizer, num_spectral_layers, last_activation) ==
    IF spacial_dim = Some(2) \/ spacial_dim = Some(1)
    THEN Built([class |-> "SpectralRegressor", spacial_dim |-> spacial_dim,
                normalizer |-> normalizer, xavier |-> FALSE,
                activations |-> SpectralActivations(num_spectral_layers,
                                                    last_activation)])
    ELSE Failed("NotImplementedError", "3D not implemented.", NoRegressor)

\* DownScaler.__init__ falling back to the convolutional scaler instead of
\* raising (a fault C3 must detect)
DownScalerInit_DefaultsToConv(downsample_mode) ==
    IF downsample_mode = Some("interp") THEN Built("DownScaler/interp")
    ELSE Built("DownScaler/conv")

\* DownScaler.__init__
DownScalerInit(downsample_mode) ==
    IF downsample_mode = Some("conv") THEN Built("DownScaler/conv")
    ELSE IF downsample_mode = Some("interp") THEN Built("DownScaler/interp")
    ELSE Failed("NotImplementedError", "downsample mode not implemented.", "unbuilt")

\* UpScaler.__init__
UpScalerInit(upsample_mode) ==
    IF upsample_mode \in {Some("conv"), Some("deconv")} THEN Built("UpScaler/conv")
    ELSE IF upsample_mode = Some("interp") THEN Built("UpScaler/interp")
    ELSE Failed("NotImplementedError", "upsample mode not implemented.", "unbuilt")

----------------------------------------------------------------------------
(* The operator under construction *)

Unset ==
    [spacial_dim |-> None, num_ft_layers |-> 0, attention_types |-> {},
     scaler |-> FALSE, normalizer |-> None, boundary_condition |-> None,
     feat_extract |-> "unbuilt", downscaler |-> "unbuilt", upscaler |-> "unbuilt",
     encoder_layers |-> << >>, freq_regressor |-> "unbuilt",
     regressor |-> NoRegressor]

\* [copy.deepcopy(encoder_layer) for _ in range(num_layers)]
Copies(layer, n) == [i \in 1..n |-> layer]

\* FourierTransformer._get_setting
FourierTransformer_get_setting(c) ==
    [Unset EXCEPT
        !.normalizer = c.normalizer,
        !.boundary_condition = c.boundary_condition,
        !.spacial_dim = IF c.spacial_dim = None THEN Some(c.pos_dim) ELSE c.spacial_dim,
        !.num_ft_layers = IF c.decoder_type = "attention"
                          THEN c.num_ft_layers + 1 ELSE c.num_ft_layers,
        !.attention_types = {"fourier", "integral", "cosine", "galerkin",
                             "linear", "softmax"}]

\* FourierTransformer2D._get_setting
FourierTransformer2D_get_setting(c) ==
    [Unset EXCEPT
        !.normalizer = c.normalizer,
        !.boundary_condition = c.boundary_condition,
        !.spacial_dim = c.spacial_dim,
        !.num_ft_layers = IF c.decoder_type = "attention"
                          THEN c.num_ft_layers + 1 ELSE c.num_ft_layers,
        !.attention_types = {"fourier", "integral", "local", "global", "cosine",
                             "galerkin", "linear", "softmax"},
        !.scaler = Truthy(c.upscaler_size) /\ Truthy(c.downscaler_size)]

\* FourierTransformer._get_graph and FourierTransformer2D._get_graph
GetGraphModule(c) ==
    IF c.num_feat_layers > 0 /\ c.feat_extract_type = Some("gcn") THEN "GCN"
    ELSE IF c.num_feat_layers > 0 /\ c.feat_extract_type = Some("gat") THEN "GAT"
    ELSE "Identity"

\* FourierTransformer2D._get_scaler: [err, down, up]
FourierTransformer2D_get_scaler(c, s) ==
    IF s.scaler
    THEN LET d == DownScalerInit(c.downsample_mode)
             u == UpScalerInit(c.upsample_mode)
         IN  IF d.err # NoErr THEN [err |-> d.err, down |-> "unbuilt", up |-> "unbuilt"]
             ELSE IF u.err # NoErr THEN [err |-> u.err, down |-> d.val, up |-> "unbuilt"]
             ELSE [err |-> NoErr, down |-> d.val, up |-> u.val]
    ELSE IF Missing(c, "spacial_dim")
    THEN [err |-> Raise("AttributeError", "spacial_dim"),
          down |-> "unbuilt", up |-> "unbuilt"]
    ELSE IF s.spacial_dim = None
    THEN [err |-> Raise("TypeError", "node_feats + None"),
          down |-> "unbuilt", up |-> "unbuilt"]
    ELSE [err |-> NoErr, down |-> "Identity", up |-> "Identity"]

AttributeError(key, v) == Failed("AttributeError", key, v)

\* FourierTransformer._get_encoder: the layer every stack entry is copied
\* from.  residual_type=self.residual_type is passed to the attention layer.
FourierTransformer_get_encoder(c, s) ==
    IF Missing(c, "return_attn_weight")
    THEN AttributeError("return_attn_weight", NoLayer)
    ELSE IF c.attention_type \in s.attention_types
    THEN FourierTransformerEncoderLayerInit(c.n_hidden, c.n_head, c.pos_dim,
                                            c.attention_type, c.encoder_dropout,
                                            c.return_attn_weight, c.residual_type,
                                            DefaultPosEmb)
    ELSE TransformerEncoderLayerInit(c.n_hidden, c.n_head, c.encoder_dropout,
                                     c.return_attn_weight)

\* FourierTransformer2D._get_encoder.  Neither residual_type nor norm_type
\* is among the arguments of the call.
FourierTransformer2D_get_encoder(c, s) ==
    IF c.attention_type \in s.attention_types
    THEN IF Missing(c, "return_attn_weight")
         THEN AttributeError("return_attn_weight", NoLayer)
         ELSE FourierTransformerEncoderLayerInit(c.n_hidden, c.n_head, c.pos_dim,
                                                 c.attention_type, c.encoder_dropout,
                                                 c.return_attn_weight,
                                                 DefaultResidualType, DefaultPosEmb)
    ELSE IF c.attention_type = "official"
    THEN IF Missing(c, "return_attn_weight")
         THEN AttributeError("return_attn_weight", NoLayer)
         ELSE TransformerEncoderLayerInit(c.n_hidden, c.n_head, c.encoder_dropout,
                                          c.return_attn_weight)
    ELSE Failed("NotImplementedError", "encoder type not implemented.", NoLayer)

\* FourierTransformer._get_regressor.  No last_activation and no normalizer
\* is passed to SpectralRegressor.
FourierTransformer_get_regressor(c, s) ==
    IF c.decoder_type = "pointwise" THEN PointwiseRegressorInit(s.spacial_dim)
    ELSE IF c.decoder_type = "ifft"
    THEN SpectralRegressorInit(s.spacial_dim, None, c.num_regressor_layers,
                               DefaultLastActivation)
    ELSE Failed("NotImplementedError", "Decoder type not implemented", NoRegressor)

\* FourierTransformer2D._get_regressor falling back to the pointwise decoder
\* instead of raising (a fault C2 must detect)
FourierTransformer2D_get_regressor_DefaultsToPointwise(c, s) ==
    IF c.decoder_type = "ifft2"
    THEN SpectralRegressorInit(s.spacial_dim, None, c.num_regressor_layers,
                               c.last_activation)
    ELSE PointwiseRegressorInit(s.spacial_dim)

\* FourierTransformer2D._get_regressor.  last_activation=self.last_activation
\* is passed to SpectralRegressor, no normalizer is.
FourierTransformer2D_get_regressor(c, s) ==
    IF c.decoder_type = "pointwise"
    THEN IF Missing(c, "spacial_dim") THEN AttributeError("spacial_dim", NoRegressor)
         ELSE PointwiseRegressorInit(s.spacial_dim)
    ELSE IF c.decoder_type = "ifft2"
    THEN IF Missing(c, "spacial_dim") THEN AttributeError("spacial_dim", NoRegressor)
         ELSE IF Missing(c, "last_activation")
         THEN AttributeError("last_activation", NoRegressor)
         ELSE SpectralRegressorInit(s.spacial_dim, None, c.num_regressor_layers,
                                    c.last_activation)
    ELSE Failed("NotImplementedError", "Decoder type not implemented", NoRegressor)

\* FourierTransformer._initialize_layer(self.regressor)
InitializeLayer(r) == [r EXCEPT !.xavier = TRUE]

----------------------------------------------------------------------------
(* Construction: __init__ runs _get_setting, then _initialize *)

Is1D == config.op = "FourierTransformer"
Is2D == config.op = "FourierTransformer2D"

Fail(e) ==
    /\ pc' = "error"
    /\ err' = e

\* _get_setting reads self.dim_feedforward right after the setattr loop
GetSetting ==
    /\ pc = "init"
    /\ IF Missing(config, "dim_feedforward")
       THEN Fail(Raise("AttributeError", "dim_feedforward")) /\ self' = self
       ELSE /\ self' = IF Is1D THEN FourierTransformer_get_setting(config)
                              ELSE FourierTransformer2D_get_setting(config)
            /\ pc' = "get_graph"
            /\ err' = err
    /\ UNCHANGED <<config, inputs, x, trace, out>>

GetGraph ==
    /\ pc = "get_graph"
    /\ self' = [self EXCEPT !.feat_extract = GetGraphModule(config)]
    /\ pc' = IF Is1D THEN "get_encoder" ELSE "get_scaler"
    /\ UNCHANGED <<config, err, inputs, x, trace, out>>

GetScaler ==
    /\ pc = "get_scaler"
    /\ LET r == FourierTransformer2D_get_scaler(config, self)
       IN  /\ self' = [self EXCEPT !.downscaler = r.down, !.upscaler = r.up]
           /\ IF r.err # NoErr THEN Fail(r.err)
              ELSE pc' = "get_encoder" /\ err' = err
    /\ UNCHANGED <<config, inputs, x, trace, out>>

GetEncoder ==
    /\ pc = "get_encoder"
    /\ LET r == IF Is1D THEN FourierTransformer_get_encoder(config, self)
                        ELSE FourierTransformer2D_get_encoder(config, self)
       IN  IF r.err # NoErr
           THEN Fail(r.err) /\ self' = self
           ELSE /\ self' = [self EXCEPT
                              !.encoder_layers = Copies(r.val, self.num_ft_layers)]
                /\ pc' = IF Is1D THEN "get_freq_regressor" ELSE "get_regressor"
                /\ err' = err
    /\ UNCHANGED <<config, inputs, x, trace, out>>

\* FourierTransformer._initialize: if self.n_freq_targets > 0: _get_freq_regressor()
GetFreqRegressor ==
    /\ pc = "get_freq_regressor"
    /\ IF config.n_freq_targets = None
       THEN Fail(Raise("TypeError", "None > 0")) /\ self' = self
       ELSE /\ self' = IF Val(config.n_freq_targets) > 0
                       THEN [self EXCEPT !.freq_regressor = "Sequential"]
                       ELSE self
            /\ pc' = "get_regressor"
            /\ err' = err
    /\ UNCHANGED <<config, inputs, x, trace, out>>

GetRegressor ==
    /\ pc = "get_regressor"
    /\ LET r == IF Is1D THEN FourierTransformer_get_regressor(config, self)
                        ELSE FourierTransformer2D_get_regressor(config, self)
       IN  IF r.err # NoErr
           THEN Fail(r.err) /\ self' = self
           ELSE /\ self' = [self EXCEPT !.regressor = r.val]
                /\ pc' = IF Is1D THEN "initialize_layer" ELSE "built"
                /\ err' = err
    /\ UNCHANGED <<config, inputs, x, trace, out>>

\* FourierTransformer._initialize: the closing re-initialisation of the decoder
InitializeRegressor ==
    /\ pc = "initialize_layer"
    /\ self' = IF config.decoder_type \in {"pointwise", "convolution"}
               THEN [self EXCEPT !.regressor = InitializeLayer(self.regressor)]
               ELSE self
    /\ pc' = "built"
    /\ UNCHANGED <<config, err, inputs, x, trace, out>>

Construct ==
    \/ GetSetting
    \/ GetGraph
    \/ GetScaler
    \/ GetEncoder
    \/ GetFreqRegressor
    \/ GetRegressor
    \/ InitializeRegressor

----------------------------------------------------------------------------
(* Tensors *)

\* A tensor is its layout ("grid": (bsz, h, w, width); "seq": (bsz, h, width)
\* with w = 1), and, once it is a prediction, the value of each of its cells.
NoCells == [p \in {} |-> 0]
NoTensor == [rank |-> "none", h |-> 0, w |-> 0, width |-> 0, cells |-> NoCells]
NoInputs == [n |-> 0, n_s |-> 0, gh |-> 0, gw |-> 0]
\* The dict forward returns, filled in as the pass goes.  preds_ortho lists
\* the activations appended to x_ortho (0: the output of the feature
\* extractor, i: the output of encoder layer i), attn_weights the layers
\* whose weight map was appended; preds_freq is "absent" (no such key),
\* "None" or "x_freq".
NoOut == [returned |-> FALSE, preds |-> NoTensor, decoded |-> NoCells,
          preds_ortho |-> << >>, attn_weights |-> << >>, preds_freq |-> "absent"]

Ev(stage, layer) == [stage |-> stage, layer |-> layer]
Stages(tr) == [k \in DOMAIN tr |-> tr[k].stage]
Count(tr, stage) == Cardinality({k \in DOMAIN tr : tr[k].stage = stage})

\* width of the node features the caller supplies
NodeFeats == 1

\* DownScaler.forward: the coarse resolution of an (n, n) grid; the encoder
\* works on a coarser grid than the input.
DownScalerRes(n, factor) == (n - 1) \div factor + 1

\* UpScaler.forward: the upscaler restores the resolution of the input grid.
UpScalerRes(inp) == inp.n

\* x[:, 1:-1] : the crop applied to the first spatial axis only (a fault C9
\* must detect)
Crop_RowsOnly(t) == [t EXCEPT !.h = IF t.h >= 2 THEN t.h - 2 ELSE 0]

\* x[:, 1:-1, 1:-1]
Crop(t) == [t EXCEPT !.h = IF t.h >= 2 THEN t.h - 2 ELSE 0,
                     !.w = IF t.w >= 2 THEN t.w - 2 ELSE 0]

\* the values a regressor writes: one per cell, none of them special
Decoded(h, w) == [p \in (1..h) \X (1..w) |-> (p[1] - 1) * w + p[2]]

\* normalizer.inverse_transform
InverseTransform(cells) == [p \in DOMAIN cells |-> cells[p] * NormStd + NormMean]

\* F.pad(x, (0, 0, 1, 0, 1, 0), "constant", 0): a border on the leading side
\* of each axis only (a fault C10 must detect)
Pad_LeadingSideOnly(t) ==
    [t EXCEPT
        !.h = t.h + 1,
        !.w = t.w + 1,
        !.cells = [p \in (1..(t.h + 1)) \X (1..(t.w + 1)) |->
                     IF p[1] = 1 \/ p[2] = 1
                     THEN 0
                     ELSE t.cells[<<p[1] - 1, p[2] - 1>>]]]

\* F.pad(x, (0, 0, 1, 1, 1, 1), "constant", 0)
Pad(t) ==
    [t EXCEPT
        !.h = t.h + 2,
        !.w = t.w + 2,
        !.cells = [p \in (1..(t.h + 2)) \X (1..(t.w + 2)) |->
                     IF p[1] = 1 \/ p[1] = t.h + 2 \/ p[2] = 1 \/ p[2] = t.w + 2
                     THEN 0
                     ELSE t.cells[<<p[1] - 1, p[2] - 1>>]]]

\* PointwiseRegressor.forward and SpectralRegressor.forward: the resolution
\* is kept, the channels become the targets; a spectral regressor that owns
\* a normalizer applies its inverse transform itself.
RegressorForward(r, t) ==
    LET d == Decoded(t.h, t.w)
    IN  [t EXCEPT !.width = 1,
                  !.cells = IF r.class = "SpectralRegressor" /\ Truthy(r.normalizer)
                            THEN InverseTransform(d) ELSE d]

\* an encoder layer whose forward returns the tensor alone whatever its
\* attn_weight switch (a fault C12 must detect)
EncoderForward_NeverReportsWeights(layer, t, pos_dim) ==
    IF layer.class = "TransformerEncoderLayer" /\ t.width + pos_dim # layer.d_model
    THEN [err |-> Raise("AssertionError", "embed_dim mismatch"),
          val |-> [t EXCEPT !.width = t.width + pos_dim], weight |-> None]
    ELSE [err |-> NoErr, val |-> t, weight |-> None]

\* FourierTransformerEncoderLayer.forward / TransformerEncoderLayer.forward,
\* called as encoder(x, pos, weight) with pos a tensor of pos_dim channels.
\* The attention layers keep the shape.  The torch-style layer concatenates
\* pos to src first, and MultiheadAttention rejects an input whose width is
\* not the d_model it was built with.
\* What is returned is (tensor, attn_weight) if self.attn_weight, else the
\* tensor alone: weight is Some("attn_weight") or None.
EncoderForward(layer, t, pos_dim) ==
    LET weight == IF IsTrue(layer.attn_weight) THEN Some("attn_weight") ELSE None
    IN  IF layer.class = "TransformerEncoderLayer"
        THEN LET wd == t.width + pos_dim
             IN  IF wd # layer.d_model
                 THEN [err |-> Raise("AssertionError", "embed_dim mismatch"),
                       val |-> [t EXCEPT !.width = wd], weight |-> None]
                 ELSE [err |-> NoErr, val |-> [t EXCEPT !.width = wd],
                       weight |-> weight]
        ELSE [err |-> NoErr, val |-> t, weight |-> weight]

\* the body of "for encoder in self.encoder_layers": layer i applied to t,
\* with o the dict under construction
\*     if self.return_attn_weight:
\*         x, attn_weight = encoder(x, pos, weight); attn_weights.append(attn_weight)
\*     else:
\*         x = encoder(x, pos, weight)
\*     if self.return_ortho: x_ortho.append(x.contiguous())
\* A layer that returns the bare tensor where a pair is unpacked, or a pair
\* where a tensor is used, ends the pass with an error.
EncoderLoopBody(c, layer, i, t, o) ==
    LET r == EncoderForward(layer, t, c.pos_dim)
        unpack == IsTrue(c.return_attn_weight)
    IN  IF r.err # NoErr THEN [err |-> r.err, val |-> r.val, out |-> o]
        ELSE IF unpack # (r.weight # None)
        THEN [err |-> Raise("TypeError", "tensor / tuple mismatch"),
              val |-> r.val, out |-> o]
        ELSE [err |-> NoErr,
              val |-> r.val,
              out |-> [o EXCEPT
                         !.attn_weights = IF unpack THEN Append(@, i) ELSE @,
                         !.preds_ortho = IF IsTrue(c.return_ortho)
                                         THEN Append(@, i) ELSE @]]

----------------------------------------------------------------------------
(* Forward passes *)

FwdFail(e) ==
    /\ pc' = "fwd_error"
    /\ err' = e

GridSizes == (NodeRes - 2)..NodeRes

\* A call of forward(node, edge, pos, grid) on a built operator.  pos holds
\* the n_s * n_s points of the grid the encoder works on.
Forward ==
    /\ pc = "built"
    /\ \E gh \in GridSizes, gw \in GridSizes :
          IF Is1D
          THEN /\ gh = NodeRes /\ gw = NodeRes
               /\ inputs' = [n |-> SeqLen, n_s |-> SeqLen, gh |-> SeqLen, gw |-> 1]
               /\ x' = [rank |-> "seq", h |-> SeqLen, w |-> 1,
                        width |-> NodeFeats, cells |-> NoCells]
               /\ pc' = "f1_feat_extract"
          ELSE /\ inputs' = [n |-> NodeRes,
                             n_s |-> IF self.scaler
                                     THEN DownScalerRes(NodeRes, Val(config.downscaler_size))
                                     ELSE NodeRes,
                             gh |-> gh, gw |-> gw]
               /\ x' = [rank |-> "grid", h |-> NodeRes, w |-> NodeRes,
                        width |-> NodeFeats, cells |-> NoCells]
               /\ pc' = "f2_downscale"
    /\ trace' = << >>
    /\ out' = NoOut
    /\ UNCHANGED <<config, self, err>>

(* FourierTransformer2D.forward *)

\* if not self.scaler: node = cat([node, pos]); x = self.downscaler(node);
\* x = x.view(bsz, -1, self.n_hidden)
Fwd2D_Downscale ==
    /\ pc = "f2_downscale"
    /\ x' = [x EXCEPT !.rank = "seq", !.h = inputs.n_s * inputs.n_s, !.w = 1,
                      !.width = config.n_hidden]
    /\ trace' = trace \o (IF self.scaler THEN << >> ELSE <<Ev("cat_pos", 0)>>)
                      \o <<Ev("downscale", 0), Ev("flatten", 0)>>
    /\ pc' = "f2_feat_extract"
    /\ UNCHANGED <<config, self, err, inputs, out>>

\* the dropout applied before the feature extractor instead of after it (a
\* fault C6 must detect)
Fwd2D_FeatExtract_DropoutFirst ==
    /\ pc = "f2_feat_extract"
    /\ trace' = trace \o <<Ev("dropout", 0), Ev("feat_extract", 0)>>
    /\ pc' = "f2_encoder"
    /\ UNCHANGED <<config, self, err, inputs, x, out>>

\* x = self.feat_extract(x, edge); x = self.dropout(x)
Fwd2D_FeatExtract ==
    /\ pc = "f2_feat_extract"
    /\ trace' = trace \o <<Ev("feat_extract", 0), Ev("dropout", 0)>>
    /\ pc' = "f2_encoder"
    /\ UNCHANGED <<config, self, err, inputs, x, out>>

\* for encoder in self.encoder_layers: x = encoder(x, pos, weight)
Fwd2D_Encoder ==
    /\ pc = "f2_encoder"
    /\ LET i == Count(trace, "encoder") + 1
       IN  IF i > Len(self.encoder_layers)
           THEN pc' = "f2_upscale" /\ UNCHANGED <<x, trace, err, out>>
           ELSE LET r == EncoderLoopBody(config, self.encoder_layers[i], i, x, out)
                IN  /\ trace' = Append(trace, Ev("encoder", i))
                    /\ x' = r.val
                    /\ out' = r.out
                    /\ IF r.err # NoErr THEN FwdFail(r.err)
                       ELSE pc' = pc /\ err' = err
    /\ UNCHANGED <<config, self, inputs>>

\* x = x.view(bsz, n_s, n_s, self.n_hidden); x = self.upscaler(x)
Fwd2D_Upscale ==
    /\ pc = "f2_upscale"
    /\ LET r == IF self.scaler THEN UpScalerRes(inputs) ELSE inputs.n_s
       IN  x' = [x EXCEPT !.rank = "grid", !.h = r, !.w = r]
    /\ trace' = trace \o <<Ev("reshape", 0), Ev("upscale", 0)>>
    /\ pc' = "f2_crop"
    /\ UNCHANGED <<config, self, err, inputs, out>>

\* x = self.dropout(x); if x.size(1) != grid.size(1): x = x[:, 1:-1, 1:-1]
Fwd2D_Crop ==
    /\ pc = "f2_crop"
    /\ IF x.h # inputs.gh
       THEN /\ x' = Crop(x)
            /\ trace' = trace \o <<Ev("dropout", 0), Ev("crop", 0)>>
       ELSE /\ x' = x
            /\ trace' = Append(trace, Ev("dropout", 0))
    /\ pc' = "f2_regressor"
    /\ UNCHANGED <<config, self, err, inputs, out>>

\* x = self.regressor(x, grid=grid)
Fwd2D_Regressor ==
    /\ pc = "f2_regressor"
    /\ x' = RegressorForward(self.regressor, x)
    /\ out' = [out EXCEPT !.decoded = Decoded(x.h, x.w)]
    /\ trace' = Append(trace, Ev("regressor", 0))
    /\ pc' = "f2_normalizer"
    /\ UNCHANGED <<config, self, err, inputs>>

\* if self.normalizer: x = self.normalizer.inverse_transform(x)
Fwd2D_Normalizer ==
    /\ pc = "f2_normalizer"
    /\ IF Truthy(self.normalizer)
       THEN /\ x' = [x EXCEPT !.cells = InverseTransform(x.cells)]
            /\ trace' = Append(trace, Ev("inverse_transform", 0))
       ELSE UNCHANGED <<x, trace>>
    /\ pc' = "f2_pad"
    /\ UNCHANGED <<config, self, err, inputs, out>>

\* the padding applied for 'dirichlet' only, not for an unset
\* boundary_condition (a fault C8 must detect)
Fwd2D_PadReturn_DirichletOnly ==
    /\ pc = "f2_pad"
    /\ LET padded == self.boundary_condition = Some("dirichlet")
           y == IF padded THEN Pad(x) ELSE x
       IN  /\ x' = y
           /\ trace' = IF padded THEN Append(trace, Ev("pad", 0)) ELSE trace
           /\ out' = [out EXCEPT !.returned = TRUE, !.preds = y]
    /\ pc' = "built"
    /\ UNCHANGED <<config, self, err, inputs>>

\* if self.boundary_condition == 'dirichlet' or self.boundary_condition is None:
\*     x = F.pad(...);  return dict(preds=x, ...)
Fwd2D_PadReturn ==
    /\ pc = "f2_pad"
    /\ LET padded == self.boundary_condition = Some("dirichlet")
                     \/ self.boundary_condition = None
           y == IF padded THEN Pad(x) ELSE x
       IN  /\ x' = y
           /\ trace' = IF padded THEN Append(trace, Ev("pad", 0)) ELSE trace
           /\ out' = [out EXCEPT !.returned = TRUE, !.preds = y]
    /\ pc' = "built"
    /\ UNCHANGED <<config, self, err, inputs>>

(* FourierTransformer.forward *)

\* x = self.feat_extract(node, edge)
\* if self.spacial_residual or self.return_ortho:
\*     res = x.contiguous(); x_ortho.append(res)
Fwd1D_FeatExtract ==
    /\ pc = "f1_feat_extract"
    /\ x' = [x EXCEPT !.width = config.n_hidden]
    /\ trace' = Append(trace, Ev("feat_extract", 0))
    /\ IF Missing(config, "spacial_residual")
       THEN FwdFail(Raise("AttributeError", "spacial_residual")) /\ out' = out
       ELSE /\ out' = IF IsTrue(config.spacial_residual) \/ IsTrue(config.return_ortho)
                      THEN [out EXCEPT !.preds_ortho = Append(@, 0)]
                      ELSE out
            /\ pc' = "f1_encoder"
            /\ err' = err
    /\ UNCHANGED <<config, self, inputs>>

\* for encoder in self.encoder_layers: x = encoder(x, pos, weight)
Fwd1D_Encoder ==
    /\ pc = "f1_encoder"
    /\ LET i == Count(trace, "encoder") + 1
       IN  IF i > Len(self.encoder_layers)
           THEN pc' = "f1_freq" /\ UNCHANGED <<x, trace, err, out>>
           ELSE LET r == EncoderLoopBody(config, self.encoder_layers[i], i, x, out)
                IN  /\ trace' = Append(trace, Ev("encoder", i))
                    /\ x' = r.val
                    /\ out' = r.out
                    /\ IF r.err # NoErr THEN FwdFail(r.err)
                       ELSE pc' = pc /\ err' = err
    /\ UNCHANGED <<config, self, inputs>>

\* if self.spacial_residual: x = res + x
\* x_freq = self.freq_regressor(x)[...] if self.n_freq_targets > 0 else None
Fwd1D_Freq ==
    /\ pc = "f1_freq"
    /\ trace' = trace
                \o (IF IsTrue(config.spacial_residual)
                    THEN <<Ev("spacial_residual", 0)>> ELSE << >>)
                \o (IF Val(config.n_freq_targets) > 0
                    THEN <<Ev("freq_regressor", 0)>> ELSE << >>)
    /\ out' = [out EXCEPT !.preds_freq = IF Val(config.n_freq_targets) > 0
                                         THEN "x_freq" ELSE "None"]
    /\ pc' = "f1_regressor"
    /\ UNCHANGED <<config, self, err, inputs, x>>

\* x = self.dp(x); x = self.regressor(x, grid=grid); return dict(preds=x, ...)
Fwd1D_RegressorReturn ==
    /\ pc = "f1_regressor"
    /\ LET y == RegressorForward(self.regressor, x)
       IN  /\ x' = y
           /\ out' = [out EXCEPT !.returned = TRUE, !.preds = y,
                                 !.decoded = Decoded(x.h, x.w)]
    /\ trace' = trace \o <<Ev("dropout", 0), Ev("regressor", 0)>>
    /\ pc' = "built"
    /\ UNCHANGED <<config, self, err, inputs>>

ForwardPass ==
    \/ Forward
    \/ Fwd2D_Downscale
    \/ Fwd2D_FeatExtract
    \/ Fwd2D_Encoder
    \/ Fwd2D_Upscale
    \/ Fwd2D_Crop
    \/ Fwd2D_Regressor
    \/ Fwd2D_Normalizer
    \/ Fwd2D_PadReturn
    \/ Fwd1D_FeatExtract
    \/ Fwd1D_Encoder
    \/ Fwd1D_Freq
    \/ Fwd1D_RegressorReturn

----------------------------------------------------------------------------
(* The specification *)

Init ==
    /\ config \in Configs
    /\ pc = "init"
    /\ self = Unset
    /\ err = NoErr
    /\ inputs = NoInputs
    /\ x = NoTensor
    /\ trace = << >>
    /\ out = NoOut

Next == Construct \/ ForwardPass

Spec == Init /\ [][Next]_vars

\* The same operators, built from the configurations that vary the options
\* of the optional outputs and of the layer variants.
InitOptions ==
    /\ config \in OptionConfigs
    /\ pc = "init"
    /\ self = Unset
    /\ err = NoErr
    /\ inputs = NoInputs
    /\ x = NoTensor
    /\ trace = << >>
    /\ out = NoOut

SpecOptions == InitOptions /\ [][Next]_vars

----------------------------------------------------------------------------
(* A stack of FourierTransformerEncoderLayer on its own, cell by cell.     *)
(* The stack is built the way _get_encoder builds it, as deep copies of    *)
(* one layer, and a forward pass goes through the statements of            *)
(* FourierTransformerEncoderLayer.forward layer after layer.               *)

\* sequence length of the tensors the stack is run on
LayerSeqLen == 2

\* The values of a cell: multiples of 9, so that the rescaling of the kept
\* cells by 1 / (1 - p) is exact for p = 0.1 and p = 0.5.
CellValues == {-9, 18}
Positions == (1..LayerSeqLen) \X {1}
CellMaps == [Positions -> CellValues]

\* The residual rule and the positional encoding vary for the layers of the
\* default kind; the attention variant and the reporting of the attention
\* weights vary for the layers with the default rule and no encoding.
LayerConfigs ==
    {c \in [op : {"EncoderStack"},
            attention_type : {"fourier", "linear"},
            n_head : {2},
            n_hidden : HiddenChoices,
            pos_dim : {1},
            encoder_dropout : {None, Some(0), Some(50)},     \* percent
            return_attn_weight : {None, Some(TRUE)},
            residual_type : {None, Some("add"), Some("plus"), Some("minus")},
            pos_emb : BOOLEAN,
            num_ft_layers : {NumFtLayers}] :
        (c.attention_type = "linear" \/ c.return_attn_weight # None)
            => (c.residual_type = None /\ ~c.pos_emb)}

NoLayerInputs == [training |-> FALSE, x_in |-> NoCells, att |-> NoCells,
                  dropped |-> NoCells]

\* PositionalEncoding.forward: an additive encoding, a term that depends on
\* the position added to every cell
PositionalEncoding(cells) == [p \in DOMAIN cells |-> cells[p] + p[1]]

\* self.dropout1(att_output): nn.Dropout(p) zeroes the cells the mask drops
\* and rescales the kept ones by 1 / (1 - p) in training mode, and is the
\* identity for p = 0 and in evaluation mode.  p is in percent.
Dropout(p, cells, mask, training) ==
    IF ~training \/ p = 0 THEN cells
    ELSE [q \in DOMAIN cells |->
             IF mask[q] THEN (cells[q] * 100) \div (100 - p) ELSE 0]

\* the residual step adding the attention output whatever residual_type is
\* (a fault C13 must detect)
ResidualStep_AlwaysAdds(residual_type, cells, dropped) ==
    [q \in DOMAIN cells |-> cells[q] + dropped[q]]

\* if self.residual_type in ['add', 'plus'] or self.residual_type is None:
\*     x = x + self.dropout1(att_output)
\* else:
\*     x = x - self.dropout1(att_output)
ResidualStep(residual_type, cells, dropped) ==
    IF residual_type \in {Some("add"), Some("plus")} \/ residual_type = None
    THEN [q \in DOMAIN cells |-> cells[q] + dropped[q]]
    ELSE [q \in DOMAIN cells |-> cells[q] - dropped[q]]

\* the statement of the residual step of a layer that detaches the attention
\* output when the layer reports its weights (a fault C21 must detect)
AttnResidual_DetachedWhenReporting(layer, cells, att, mask, training) ==
    IF IsTrue(layer.attn_weight) THEN cells
    ELSE ResidualStep(layer.residual_type, cells,
                      Dropout(layer.dropout, att, mask, training))

\* x = x +/- self.dropout1(att_output) in a layer: the attention is called
\* the same way whatever self.attn_weight is
AttnResidual(layer, cells, att, mask, training) ==
    ResidualStep(layer.residual_type, cells,
                 Dropout(layer.dropout, att, mask, training))

\* if self.attn_weight: return x, attn_weight  else: return x
LayerReturn(layer, cells, weight) ==
    IF IsTrue(layer.attn_weight)
    THEN [tensor |-> cells, weight |-> Some(weight)]
    ELSE [tensor |-> cells, weight |-> None]

\* the layer the running forward pass is in
LayerIndex == Count(trace, "layer") + 1

\* encoder_layer = FourierTransformerEncoderLayer(...);
\* nn.ModuleList([copy.deepcopy(encoder_layer) for _ in range(num_ft_layers)])
BuildStack ==
    /\ pc = "stack_init"
    /\ LET r == FourierTransformerEncoderLayerInit(
                    config.n_hidden, config.n_head, config.pos_dim,
                    config.attention_type, config.encoder_dropout,
                    config.return_attn_weight, config.residual_type, config.pos_emb)
       IN  self' = [Unset EXCEPT !.encoder_layers = Copies(r.val, config.num_ft_layers)]
    /\ pc' = "stack_built"
    /\ UNCHANGED <<config, err, inputs, x, trace, out>>

\* for encoder in encoder_layers: x = encoder(x, pos, weight), on some tensor
\* in training or in evaluation mode
StackForward ==
    /\ pc = "stack_built"
    /\ \E cells \in CellMaps, training \in BOOLEAN :
          /\ x' = [rank |-> "seq", h |-> LayerSeqLen, w |-> 1,
                   width |-> config.n_hidden, cells |-> cells]
          /\ inputs' = [NoLayerInputs EXCEPT !.training = training]
    /\ trace' = << >>
    /\ out' = NoOut
    /\ pc' = "l_pos_emb"
    /\ UNCHANGED <<config, self, err>>

\* if self.add_pos_emb: x = self.pos_emb(x)   (between two permutes);
\* past the last layer of the stack, the pass returns
LayerPosEmb ==
    /\ pc = "l_pos_emb"
    /\ IF LayerIndex > Len(self.encoder_layers)
       THEN /\ out' = [out EXCEPT !.returned = TRUE, !.preds = x]
            /\ pc' = "stack_built"
            /\ UNCHANGED <<x, trace>>
       ELSE /\ IF self.encoder_layers[LayerIndex].add_pos_emb
               THEN /\ x' = [x EXCEPT !.cells = PositionalEncoding(x.cells)]
                    /\ trace' = Append(trace, Ev("pos_emb", LayerIndex))
               ELSE UNCHANGED <<x, trace>>
            /\ pc' = "l_attn"
            /\ out' = out
    /\ UNCHANGED <<config, self, err, inputs>>

\* att_output, attn_weight = self.attn(x, x, x, pos=pos, weight=weight):
\* some tensor of the shape of x
LayerAttention ==
    /\ pc = "l_attn"
    /\ \E att \in CellMaps :
          inputs' = [inputs EXCEPT !.x_in = x.cells, !.att = att]
    /\ trace' = Append(trace, Ev("attn", LayerIndex))
    /\ pc' = "l_residual"
    /\ UNCHANGED <<config, self, err, x, out>>

\* x = x +/- self.dropout1(att_output)
LayerResidual ==
    /\ pc = "l_residual"
    /\ \E mask \in [Positions -> BOOLEAN] :
          LET layer == self.encoder_layers[LayerIndex]
              dropped == Dropout(layer.dropout, inputs.att, mask, inputs.training)
          IN  /\ inputs' = [inputs EXCEPT !.dropped = dropped]
              /\ x' = [x EXCEPT !.cells = AttnResidual(layer, x.cells, inputs.att,
                                                        mask, inputs.training)]
    /\ trace' = Append(trace, Ev("residual", LayerIndex))
    /\ pc' = "l_ff"
    /\ UNCHANGED <<config, self, err, out>>

\* layer_norm1, the feed-forward block with its residual, layer_norm2: some
\* tensor of the same shape, which the layer returns, with the attention
\* weights when it reports them
LayerFeedForward ==
    /\ pc = "l_ff"
    /\ \E cells \in CellMaps :
          LET r == LayerReturn(self.encoder_layers[LayerIndex], cells, LayerIndex)
          IN  /\ x' = [x EXCEPT !.cells = r.tensor]
              /\ out' = IF r.weight = None THEN out
                        ELSE [out EXCEPT !.attn_weights =
                                             Append(@, Val(r.weight))]
    /\ inputs' = [NoLayerInputs EXCEPT !.training = inputs.training]
    /\ trace' = Append(trace, Ev("layer", LayerIndex))
    /\ pc' = "l_pos_emb"
    /\ UNCHANGED <<config, self, err>>

InitLayer ==
    /\ config \in LayerConfigs
    /\ pc = "stack_init"
    /\ self = Unset
    /\ err = NoErr
    /\ inputs = NoLayerInputs
    /\ x = NoTensor
    /\ trace = << >>
    /\ out = NoOut

NextLayer ==
    \/ BuildStack
    \/ StackForward
    \/ LayerPosEmb
    \/ LayerAttention
    \/ LayerResidual
    \/ LayerFeedForward

SpecLayer == InitLayer /\ [][NextLayer]_vars

----------------------------------------------------------------------------
(* The graph feature extractors GCN and GAT on their own.  Both keep a     *)
(* first layer (gcn_layer0 / gat_layer0) and a list of the num_gcn_layers  *)
(* - 1 further layers, and their forward methods have the same shape.      *)

\* the largest num_gcn_layers explored
MaxGraphLayers == 4

GraphConfigs ==
    [op : {"GCN", "GAT"},
     num_gcn_layers : 1..MaxGraphLayers,
     activation : FlagChoices]

\* self.relu
ReLU(cells) == [q \in DOMAIN cells |-> IF cells[q] > 0 THEN cells[q] ELSE 0]

\* len(self.gcn_layers): [... for _ in range(1, num_gcn_layers)]
NumFurtherLayers(c) == c.num_gcn_layers - 1

\* the layers of the running pass that have been applied so far
GraphLayersDone == Count(trace, "graph_layer")

\* GCN.__init__ / GAT.__init__
BuildGraph ==
    /\ pc = "graph_init"
    /\ self' = [Unset EXCEPT !.feat_extract = config.op]
    /\ pc' = "graph_built"
    /\ UNCHANGED <<config, err, inputs, x, trace, out>>

\* a call forward(x, edge) on some node features
GraphForward ==
    /\ pc = "graph_built"
    /\ \E cells \in CellMaps :
          x' = [rank |-> "seq", h |-> LayerSeqLen, w |-> 1, width |-> 1,
                cells |-> cells]
    /\ trace' = << >>
    /\ out' = NoOut
    /\ pc' = "g_layer0"
    /\ UNCHANGED <<config, self, err, inputs>>

\* out = self.gcn_layer0(x, edge): some tensor, no activation applied
GraphLayer0 ==
    /\ pc = "g_layer0"
    /\ \E cells \in CellMaps : x' = [x EXCEPT !.cells = cells]
    /\ trace' = Append(trace, Ev("graph_layer", 0))
    /\ pc' = "g_loop"
    /\ UNCHANGED <<config, self, err, inputs, out>>

\* for gc in self.gcn_layers[:-1]:
\*     out = gc(out, edge)
\*     if self.activation: out = self.relu(out)
GraphLoop ==
    /\ pc = "g_loop"
    /\ IF GraphLayersDone < NumFurtherLayers(config)
       THEN /\ \E cells \in CellMaps :
                  x' = [x EXCEPT !.cells = IF IsTrue(config.activation)
                                           THEN ReLU(cells) ELSE cells]
            /\ trace' = trace \o <<Ev("graph_layer", GraphLayersDone)>>
                              \o (IF IsTrue(config.activation)
                                  THEN <<Ev("relu", GraphLayersDone)>> ELSE << >>)
            /\ pc' = pc
       ELSE /\ pc' = "g_last"
            /\ UNCHANGED <<x, trace>>
    /\ UNCHANGED <<config, self, err, inputs, out>>

\* return self.gcn_layers[-1](out, edge): the last layer, no activation; an
\* empty list has no last element
GraphLast ==
    /\ pc = "g_last"
    /\ IF NumFurtherLayers(config) = 0
       THEN /\ pc' = "graph_error"
            /\ err' = Raise("IndexError", "index -1 is out of range")
            /\ UNCHANGED <<x, trace, out>>
       ELSE /\ \E cells \in CellMaps :
                  /\ x' = [x EXCEPT !.cells = cells]
                  /\ out' = [out EXCEPT !.returned = TRUE,
                                        !.preds = [x EXCEPT !.cells = cells]]
            /\ trace' = Append(trace, Ev("graph_layer", GraphLayersDone))
            /\ pc' = "graph_built"
            /\ err' = err
    /\ UNCHANGED <<config, self, inputs>>

InitGraph ==
    /\ config \in GraphConfigs
    /\ pc = "graph_init"
    /\ self = Unset
    /\ err = NoErr
    /\ inputs = NoInputs
    /\ x = NoTensor
    /\ trace = << >>
    /\ out = NoOut

NextGraph ==
    \/ BuildGraph
    \/ GraphForward
    \/ GraphLayer0
    \/ GraphLoop
    \/ GraphLast

SpecGraph == InitGraph /\ [][NextGraph]_vars

----------------------------------------------------------------------------
(* PointwiseRegressor on its own, cell by cell.  A tensor has one channel;  *)
(* nn.Linear is an affine map of the cell (of the cell and of the grid      *)
(* coordinate for self.fc, which reads the concatenation of the two), and   *)
(* the activation is the ReLU.                                              *)

\* the parameters the linear layers may have: weight of the feature, weight
\* of the grid coordinate (self.fc only), bias
LinearParams == {[w |-> 1, g |-> 1, b |-> 0], [w |-> -1, g |-> 2, b |-> 9]}

RegressorConfigs ==
    [op : {"PointwiseRegressor"},
     spacial_fc : BOOLEAN,
     num_layers : {1, NumRegressorLayers},
     dropout : {Some(0), Some(50)},     \* percent
     params : LinearParams]

\* the values of the argument grid of PointwiseRegressor.forward
GridChoices == {None} \cup {Some(g) : g \in CellMaps}

\* PointwiseRegressor.__init__: the switch, the number of blocks of self.ff,
\* the dropout rate and the parameters of the linear layers
PointwiseRegressorModules(spacial_fc, num_layers, dropout, params) ==
    [class |-> "PointwiseRegressor", spacial_fc |-> spacial_fc,
     num_layers |-> num_layers,
     dropout |-> IF dropout = None THEN 10 ELSE Val(dropout),
     params |-> params]

\* nn.Linear on a one-channel tensor
Linear(params, cells) == [q \in DOMAIN cells |-> params.w * cells[q] + params.b]

\* for layer in self.ff: x = layer(x); x = self.dropout(x)   (blocks i..)
RECURSIVE FeedForwardBlocks(_, _, _, _, _)
FeedForwardBlocks(r, cells, masks, training, i) ==
    IF i > r.num_layers THEN cells
    ELSE FeedForwardBlocks(r, Dropout(r.dropout, ReLU(Linear(r.params, cells)),
                                      masks[i], training),
                           masks, training, i + 1)

\* a forward that concatenates the grid whenever one is given, whatever
\* spacial_fc is (a fault C22 must detect)
PointwiseForward_ConcatenatesAnyGrid(r, cells, grid, masks, training) ==
    IF grid = None
    THEN [err |-> NoErr,
          val |-> Linear(r.params, FeedForwardBlocks(r, cells, masks, training, 1))]
    ELSE LET fc == [q \in DOMAIN cells |->
                       r.params.w * cells[q] + r.params.g * Val(grid)[q]
                           + r.params.b]
         IN  [err |-> NoErr,
              val |-> Linear(r.params,
                             FeedForwardBlocks(r, fc, masks, training, 1))]

\* PointwiseRegressor.forward:
\*     if self.spacial_fc: x = torch.cat([x, grid], dim=-1); x = self.fc(x)
\*     for layer in self.ff: ...
\*     x = self.out(x)
\* torch.cat raises a TypeError on a grid of None.
PointwiseForward(r, cells, grid, masks, training) ==
    IF r.spacial_fc /\ grid = None
    THEN [err |-> Raise("TypeError", "expected Tensor as element 1 in argument 0"),
          val |-> NoCells]
    ELSE LET fc == IF r.spacial_fc
                   THEN [q \in DOMAIN cells |->
                            r.params.w * cells[q] + r.params.g * Val(grid)[q]
                                + r.params.b]
                   ELSE cells
         IN  [err |-> NoErr,
              val |-> Linear(r.params,
                             FeedForwardBlocks(r, fc, masks, training, 1))]

\* the dropout masks of a call: they matter in training mode with a positive
\* rate only
MaskChoices(r, training) ==
    IF training /\ r.dropout > 0
    THEN [1..r.num_layers -> [Positions -> BOOLEAN]]
    ELSE {[i \in 1..r.num_layers |-> [q \in Positions |-> TRUE]]}

NoRegressorInputs == [training |-> FALSE, x_in |-> NoCells, grid |-> None,
                      masks |-> << >>]

\* PointwiseRegressor(...)
BuildRegressor ==
    /\ pc = "reg_init"
    /\ self' = [Unset EXCEPT !.regressor =
                   PointwiseRegressorModules(config.spacial_fc, config.num_layers,
                                             config.dropout, config.params)]
    /\ pc' = "reg_built"
    /\ UNCHANGED <<config, err, inputs, x, trace, out>>

\* regressor(x, grid=grid) on some tensor and some grid (or none), in
\* training or in evaluation mode; one call is followed, every call of a
\* built regressor being like the first
RegressorCall ==
    /\ pc = "reg_built"
    /\ \E cells \in CellMaps, grid \in GridChoices, training \in BOOLEAN :
         \E masks \in MaskChoices(self.regressor, training) :
          LET r == PointwiseForward(self.regressor, cells, grid, masks, training)
              t == [rank |-> "seq", h |-> LayerSeqLen, w |-> 1, width |-> 1,
                    cells |-> cells]
          IN  /\ inputs' = [training |-> training, x_in |-> cells,
                            grid |-> grid, masks |-> masks]
              /\ x' = t
              /\ err' = r.err
              /\ out' = IF r.err = NoErr
                        THEN [NoOut EXCEPT !.returned = TRUE,
                                           !.preds = [t EXCEPT !.cells = r.val]]
                        ELSE NoOut
    /\ trace' = <<Ev("regressor", self.regressor.num_layers)>>
    /\ pc' = "reg_called"
    /\ UNCHANGED <<config, self>>

InitRegressor ==
    /\ config \in RegressorConfigs
    /\ pc = "reg_init"
    /\ self = Unset
    /\ err = NoErr
    /\ inputs = NoRegressorInputs
    /\ x = NoTensor
    /\ trace = << >>
    /\ out = NoOut

NextRegressor == BuildRegressor \/ RegressorCall

SpecRegressor == InitRegressor /\ [][NextRegressor]_vars

----------------------------------------------------------------------------
(* pooling_2d of utils_ft.py: the shapes it computes.                       *)

\* the largest number of rows and columns of the pooled array, and the
\* largest kernel side
MaxPoolDim == 4
MaxKernel == 3

PoolingConfigs ==
    [op : {"pooling_2d"},
     m : 1..MaxPoolDim, n : 1..MaxPoolDim,
     ky : 1..MaxKernel, kx : 1..MaxKernel,
     method : {"max", "mean", "median"},
     padding : BOOLEAN]

\* _ceil = lambda x, y: int(np.ceil(x / float(y)))
Ceil(a, b) == (a + b - 1) \div b

\* the number of indices of the slice start:stop of an axis of length len,
\* for start >= 0; a negative stop counts from the end and -0 is 0
SliceLen(len, start, stop) ==
    LET last == IF stop < 0 THEN len + stop
                ELSE IF stop > len THEN len ELSE stop
    IN  IF last > start THEN last - start ELSE 0

\* numpy's rule for mat_pad[...] = mat on one axis: the lengths agree or the
\* source has length 1
Broadcasts(from, to) == from = to \/ from = 1

\* one axis of pooling_2d, of length m under a kernel of side k: the number
\* ny of windows, and the length of the part of the axis the array is read
\* from (:ny*ky of mat) or written to (sy:-_sy of mat_pad)
PaddedSlice(m, k, padding) ==
    LET ny == IF padding THEN Ceil(m, k) ELSE m \div k
        sy == (ny * k - m) \div 2
        sy_ == ny * k - m - sy
    IN  [ny |-> ny,
         len |-> IF padding THEN SliceLen(ny * k, sy, 0 - sy_) ELSE ny * k]

\* pooling_2d(mat, kernel_size, method, padding) for mat of m rows and n
\* columns: the error it raises, or the last two dimensions of its result
pooling_2d(m, n, ky, kx, method, padding) ==
    LET rows == PaddedSlice(m, ky, padding)
        cols == PaddedSlice(n, kx, padding)
    IN  IF padding /\ ~(Broadcasts(m, rows.len) /\ Broadcasts(n, cols.len))
        THEN [err |-> Raise("ValueError", "could not broadcast input array"),
              shape |-> << >>]
        ELSE IF method \notin {"max", "mean"}
        THEN [err |-> Raise("NotImplementedError", "pooling method not implemented."),
              shape |-> << >>]
        ELSE [err |-> NoErr, shape |-> <<rows.ny, cols.ny>>]

\* a call of pooling_2d
Pooling2d ==
    /\ pc = "pool_init"
    /\ LET r == pooling_2d(config.m, config.n, config.ky, config.kx,
                           config.method, config.padding)
       IN  /\ err' = r.err
           /\ out' = IF r.err = NoErr
                     THEN [NoOut EXCEPT !.returned = TRUE,
                                        !.preds = [NoTensor EXCEPT !.rank = "grid",
                                                      !.h = r.shape[1],
                                                      !.w = r.shape[2]]]
                     ELSE NoOut
    /\ pc' = "pool_called"
    /\ UNCHANGED <<config, self, inputs, x, trace>>

InitPooling ==
    /\ config \in PoolingConfigs
    /\ pc = "pool_init"
    /\ self = Unset
    /\ err = NoErr
    /\ inputs = NoInputs
    /\ x = NoTensor
    /\ trace = << >>
    /\ out = NoOut

SpecPooling == InitPooling /\ [][Pooling2d]_vars

----------------------------------------------------------------------------
(* run_train of utils_ft.py with train_batch_burgers or train_batch_darcy   *)
(* as its train_batch.  The parameters of the model are a version number    *)
(* that optimizer.step() advances; the mean loss of an epoch is named by    *)
(* the epoch; the validation metric of an epoch is any of a few values.     *)

\* the largest number of epochs and the largest patience asked for, the
\* number of batches of the training loader, the largest validation metric
MaxEpochs == 4
MaxPatience == 1
NumBatches == 2
MaxMetric == 2

EPOCH_SCHEDULERS == {"ReduceLROnPlateau", "StepLR", "MultiplicativeLR",
                     "MultiStepLR", "ExponentialLR", "LambdaLR"}

TrainConfigs ==
    [op : {"run_train"},
     train_batch : {"train_batch_burgers", "train_batch_darcy"},
     epochs : 0..MaxEpochs,
     patience : {None} \cup {Some(p) : p \in 0..MaxPatience},
     mode : {"min", "max"},
     lr_scheduler : {None, Some("OneCycleLR"), Some("StepLR")}]

\* if patience is None or patience == 0: patience = epochs
Patience(patience, epochs) ==
    IF patience = None \/ patience = Some(0) THEN epochs ELSE Val(patience)

\* the locals of run_train before its loop; best_val_metric is None for the
\* infinity it starts from, result is None while it is unbound
RunTrainLocals(c) ==
    [patience |-> Patience(c.patience, c.epochs),
     epoch |-> 0, end_epoch |-> c.epochs,
     best_val_metric |-> None, best_val_epoch |-> None, stop_counter |-> 0,
     is_epoch_scheduler |-> c.lr_scheduler # None
                            /\ Val(c.lr_scheduler) \in EPOCH_SCHEDULERS,
     loss_train |-> << >>, loss_val |-> << >>,
     batch |-> 0, params |-> 0, grads |-> "none", sched_steps |-> 0,
     saved |-> None, result |-> None, result_file |-> None,
     stopped |-> FALSE]

\* the scheduler run_train hands to train_batch: None for an epoch scheduler
BatchScheduler ==
    IF self.is_epoch_scheduler THEN None ELSE config.lr_scheduler

\* a training step that updates the parameters before the backward pass (a
\* fault C24 must detect)
AfterStatement_StepBeforeBackward(stmt, lr_scheduler) ==
    CASE stmt = "b_zero_grad" -> "b_forward"
      [] stmt = "b_forward" -> "b_loss"
      [] stmt = "b_loss" -> "b_step"
      [] stmt = "b_step" -> "b_backward"
      [] stmt = "b_backward" -> "b_clip"
      [] stmt = "b_clip" -> IF Truthy(lr_scheduler) THEN "b_sched" ELSE "b_return"
      [] stmt = "b_sched" -> "b_return"

\* the statement of train_batch_burgers / train_batch_darcy that follows
\* stmt: optimizer.zero_grad(); model(...); loss_func(...); loss.backward();
\* clip_grad_norm_(...); optimizer.step(); if lr_scheduler: lr_scheduler.step()
AfterStatement(stmt, lr_scheduler) ==
    CASE stmt = "b_zero_grad" -> "b_forward"
      [] stmt = "b_forward" -> "b_loss"
      [] stmt = "b_loss" -> "b_backward"
      [] stmt = "b_backward" -> "b_clip"
      [] stmt = "b_clip" -> "b_step"
      [] stmt = "b_step" -> IF Truthy(lr_scheduler) THEN "b_sched" ELSE "b_return"
      [] stmt = "b_sched" -> "b_return"

\* val_metric > best_val_metric (mode 'max'), val_metric < best_val_metric
\* (otherwise), best_val_metric starting from -inf, respectively inf
Improves(mode, val_metric, best_val_metric) ==
    \/ best_val_metric = None
    \/ IF mode = "max" THEN val_metric > Val(best_val_metric)
       ELSE val_metric < Val(best_val_metric)

\* an early stop as soon as the counter reaches patience (a fault C26 must
\* detect)
EarlyStop_AtPatience(stop_counter, patience) == stop_counter >= patience

\* if stop_counter > patience: break
EarlyStop(stop_counter, patience) == stop_counter > patience

\* run_train up to its loop
RunTrainStart ==
    /\ pc = "train_init"
    /\ self' = RunTrainLocals(config)
    /\ pc' = "epoch_loop"
    /\ UNCHANGED <<config, err, inputs, x, trace, out>>

\* for epoch in range(start_epoch, end_epoch): model.train(); the first
\* batch of train_loader
EpochLoop ==
    /\ pc = "epoch_loop"
    /\ IF self.epoch < self.end_epoch
       THEN /\ self' = [self EXCEPT !.batch = 1]
            /\ trace' = << >>
            /\ pc' = "b_zero_grad"
       ELSE /\ pc' = "train_return"
            /\ UNCHANGED <<self, trace>>
    /\ UNCHANGED <<config, err, inputs, x, out>>

\* the statements of train_batch: each leaves its event in the trace
Statement(stmt, event) ==
    /\ pc = stmt
    /\ trace' = Append(trace, Ev(event, self.batch))
    /\ pc' = AfterStatement(stmt, BatchScheduler)
    /\ UNCHANGED <<config, err, x, out>>

\* optimizer.zero_grad()
ZeroGrad ==
    /\ Statement("b_zero_grad", "zero_grad")
    /\ self' = [self EXCEPT !.grads = "zero"]
    /\ UNCHANGED inputs

\* out_ = model(x, edge, pos, grid): reads the parameters
BatchForward ==
    /\ Statement("b_forward", "forward")
    /\ inputs' = [read_params |-> self.params, loss_terms |-> {}]
    /\ UNCHANGED self

\* loss_func(...); loss = loss + reg + ortho   (loss + reg for Darcy)
BatchLoss ==
    /\ Statement("b_loss", "loss")
    /\ inputs' = [inputs EXCEPT !.loss_terms =
                     IF config.train_batch = "train_batch_burgers"
                     THEN {"loss", "reg", "ortho"} ELSE {"loss", "reg"}]
    /\ UNCHANGED self

\* loss.backward()
Backward ==
    /\ Statement("b_backward", "backward")
    /\ self' = [self EXCEPT !.grads = "computed"]
    /\ UNCHANGED inputs

\* nn.utils.clip_grad_norm_(model.parameters(), grad_clip)
ClipGrad ==
    /\ Statement("b_clip", "clip")
    /\ self' = [self EXCEPT !.grads = "clipped"]
    /\ UNCHANGED inputs

\* optimizer.step()
OptimizerStep ==
    /\ Statement("b_step", "step")
    /\ self' = [self EXCEPT !.params = @ + 1]
    /\ UNCHANGED inputs

\* if lr_scheduler: lr_scheduler.step()
SchedulerStep ==
    /\ Statement("b_sched", "sched")
    /\ self' = [self EXCEPT !.sched_steps = @ + 1]
    /\ UNCHANGED inputs

\* train_batch returns; run_train records the loss and takes the next batch
\* of the loader, or leaves the loop over the batches
BatchReturn ==
    /\ pc = "b_return"
    /\ IF self.batch < NumBatches
       THEN /\ self' = [self EXCEPT !.batch = @ + 1]
            /\ pc' = "b_zero_grad"
       ELSE /\ self' = self
            /\ pc' = "epoch_end"
    /\ UNCHANGED <<config, err, inputs, x, trace, out>>

\* the rest of the body of the loop over the epochs: the losses and the
\* metric are appended, the best metric and the counter are updated, the
\* weights are saved (mode other than 'max' only), an epoch scheduler steps,
\* and either the loop is left or the result is rebuilt and written
EpochEnd ==
    /\ pc = "epoch_end"
    /\ \E val_metric \in 1..MaxMetric :
          LET better == Improves(config.mode, val_metric, self.best_val_metric)
              counter == IF better THEN 0 ELSE self.stop_counter + 1
              stop == EarlyStop(counter, self.patience)
              s1 == [self EXCEPT
                       !.loss_train = Append(@, self.epoch),
                       !.loss_val = Append(@, val_metric),
                       !.best_val_epoch = IF better THEN Some(self.epoch) ELSE @,
                       !.best_val_metric = IF better THEN Some(val_metric) ELSE @,
                       !.stop_counter = counter,
                       !.saved = IF better /\ config.mode # "max"
                                 THEN Some([epoch |-> self.epoch,
                                            params |-> self.params])
                                 ELSE @,
                       !.sched_steps = IF Truthy(config.lr_scheduler)
                                          /\ self.is_epoch_scheduler
                                       THEN @ + 1 ELSE @,
                       !.stopped = stop]
              result == [best_val_epoch |-> s1.best_val_epoch,
                         best_val_metric |-> s1.best_val_metric,
                         loss_train |-> s1.loss_train,
                         loss_val |-> s1.loss_val,
                         optimizer_state |-> s1.params]
          IN  IF stop
              THEN /\ self' = s1
                   /\ pc' = "train_return"
              ELSE /\ self' = [s1 EXCEPT !.result = Some(result),
                                         !.result_file = Some(result),
                                         !.epoch = @ + 1]
                   /\ pc' = "epoch_loop"
    /\ UNCHANGED <<config, err, inputs, x, trace, out>>

\* return result: an UnboundLocalError if no epoch has assigned it
RunTrainReturn ==
    /\ pc = "train_return"
    /\ IF self.result = None
       THEN /\ err' = Raise("UnboundLocalError", "result")
            /\ pc' = "train_error"
            /\ out' = out
       ELSE /\ out' = [returned |-> TRUE, result |-> Val(self.result)]
            /\ pc' = "train_done"
            /\ err' = err
    /\ UNCHANGED <<config, self, inputs, x, trace>>

InitTrain ==
    /\ config \in TrainConfigs
    /\ pc = "train_init"
    /\ self = Unset
    /\ err = NoErr
    /\ inputs = NoInputs
    /\ x = NoTensor
    /\ trace = << >>
    /\ out = NoOut

NextTrain ==
    \/ RunTrainStart
    \/ EpochLoop
    \/ ZeroGrad
    \/ BatchForward
    \/ BatchLoss
    \/ Backward
    \/ ClipGrad
    \/ OptimizerStep
    \/ SchedulerStep
    \/ BatchReturn
    \/ EpochEnd
    \/ RunTrainReturn

SpecTrain == InitTrain /\ [][NextTrain]_vars

----------------------------------------------------------------------------
(* TransformerEncoderWrapper over copies of one TransformerEncoderLayer,   *)
(* called with a mask and a key padding mask.  A mask is named by its      *)
(* kind; the output of the attention is some tensor.                       *)

WrapperConfigs ==
    [op : {"TransformerEncoderWrapper"},
     d_model : HiddenChoices,
     nhead : {2},
     dropout : {Some(10)},
     attn_weight : {Some(FALSE), Some(TRUE)},
     num_layers : 1..NumFtLayers]

\* if (src_mask is None) or (src_key_padding_mask is None):
\*     self.self_attn(src, src, src)
\* else:
\*     self.self_attn(src, src, src, attn_mask=src_mask,
\*                    key_padding_mask=src_key_padding_mask)
SelfAttnArgs(src_mask, src_key_padding_mask) ==
    IF src_mask = None \/ src_key_padding_mask = None
    THEN [attn_mask |-> None, key_padding_mask |-> None]
    ELSE [attn_mask |-> src_mask, key_padding_mask |-> src_key_padding_mask]

\* TransformerEncoderLayer(...); TransformerEncoderWrapper(encoder_layer,
\* num_layers)
BuildWrapper ==
    /\ pc = "wrap_init"
    /\ LET r == TransformerEncoderLayerInit(config.d_model, config.nhead,
                                            config.dropout, config.attn_weight)
       IN  self' = [Unset EXCEPT !.encoder_layers = Copies(r.val, config.num_layers)]
    /\ pc' = "wrap_built"
    /\ UNCHANGED <<config, err, inputs, x, trace, out>>

\* a call forward(src, mask, src_key_padding_mask) of the wrapper
WrapperForward ==
    /\ pc = "wrap_built"
    /\ \E cells \in CellMaps,
          mask \in {None, Some("causal"), Some("band")},
          src_key_padding_mask \in {None, Some("pad_last"), Some("pad_first")} :
          /\ x' = [rank |-> "seq", h |-> LayerSeqLen, w |-> 1,
                   width |-> config.d_model, cells |-> cells]
          /\ inputs' = [mask |-> mask,
                        src_key_padding_mask |-> src_key_padding_mask,
                        passed |-> << >>]
    /\ trace' = << >>
    /\ out' = NoOut
    /\ pc' = "wrap_layer"
    /\ UNCHANGED <<config, self, err>>

\* for mod in self.layers: output = mod(output, src_mask=mask,
\*     src_key_padding_mask=src_key_padding_mask), and the return of the
\* wrapper (self.norm is None).  A layer that reports its attention weights
\* returns a tuple, which the next layer cannot permute.
WrapperLayer ==
    /\ pc = "wrap_layer"
    /\ IF LayerIndex > Len(self.encoder_layers)
       THEN /\ out' = [out EXCEPT !.returned = TRUE, !.preds = x]
            /\ pc' = "wrap_built"
            /\ UNCHANGED <<x, inputs, trace, err>>
       ELSE IF x.rank = "tuple"
       THEN /\ err' = Raise("AttributeError", "'tuple' object has no attribute 'permute'")
            /\ pc' = "wrap_error"
            /\ UNCHANGED <<x, inputs, trace, out>>
       ELSE /\ \E cells \in CellMaps :
                  LET r == LayerReturn(self.encoder_layers[LayerIndex], cells,
                                       LayerIndex)
                  IN  x' = [x EXCEPT !.cells = r.tensor,
                                     !.rank = IF r.weight = None THEN @ ELSE "tuple"]
            /\ inputs' = [inputs EXCEPT !.passed =
                             Append(@, SelfAttnArgs(inputs.mask,
                                                    inputs.src_key_padding_mask))]
            /\ trace' = Append(trace, Ev("layer", LayerIndex))
            /\ pc' = pc
            /\ UNCHANGED <<out, err>>
    /\ UNCHANGED <<config, self>>

InitWrapper ==
    /\ config \in WrapperConfigs
    /\ pc = "wrap_init"
    /\ self = Unset
    /\ err = NoErr
    /\ inputs = NoInputs
    /\ x = NoTensor
    /\ trace = << >>
    /\ out = NoOut

NextWrapper == BuildWrapper \/ WrapperForward \/ WrapperLayer

SpecWrapper == InitWrapper /\ [][NextWrapper]_vars

----------------------------------------------------------------------------
(* Vocabulary of the properties *)

ConstructionPcs == {"init", "get_graph", "get_scaler", "get_encoder",
                    "get_freq_regressor", "get_regressor", "initialize_layer"}

\* __init__ has returned an operator object
IsBuilt == pc \notin (ConstructionPcs \cup {"error"})

\* __init__ has raised
ConstructionFailed == pc = "error"

\* a forward call has returned its dict
Returned == pc = "built" /\ out.returned

RecognisedAttention(c) ==
    c.attention_type \in {"fourier", "integral", "local", "global", "cosine",
                          "galerkin", "linear", "softmax", "official"}

RecognisedDecoder(c) ==
    IF c.op = "FourierTransformer" THEN c.decoder_type \in {"pointwise", "ifft"}
    ELSE c.decoder_type \in {"pointwise", "ifft2"}

\* a mode string no scaler knows (an unset mode is no string)
UnknownDownMode(c) ==
    c.downsample_mode # None /\ c.downsample_mode \notin {Some("conv"), Some("interp")}
UnknownUpMode(c) ==
    c.upsample_mode # None
    /\ c.upsample_mode \notin {Some("conv"), Some("deconv"), Some("interp")}

ScalerConfigured(c) == Truthy(c.upscaler_size) /\ Truthy(c.downscaler_size)

DecoderError == Raise("NotImplementedError", "Decoder type not implemented")
DownModeError == Raise("NotImplementedError", "downsample mode not implemented.")
UpModeError == Raise("NotImplementedError", "upsample mode not implemented.")
ThreeDError == Raise("NotImplementedError", "3D not implemented.")

----------------------------------------------------------------------------
(* C1 *)

\* C1: for both operators, an attention_type that is no recognised variant
\* makes construction fail: no operator with a built encoder stack is ever
\* produced, and the failure is a "not implemented" error unless an earlier
\* builder already failed.
\* FourierTransformer._get_encoder has no raising branch: every string
\* outside its list builds a TransformerEncoderLayer stack.
C1_UnknownAttentionNeverBuilds ==
    ~RecognisedAttention(config) =>
        /\ self.encoder_layers = << >>
        /\ ~IsBuilt

----------------------------------------------------------------------------
(* C2 *)

\* C2 as stated: an unrecognised decoder_type fails construction with a
\* "not implemented" error whatever the other configuration values are.
C2_DecoderErrorWhateverElse ==
    ~RecognisedDecoder(config) =>
        /\ ~IsBuilt
        /\ ConstructionFailed => err.kind = "NotImplementedError"

\* the builders that run before _get_regressor have all succeeded
ReachedRegressor ==
    /\ self.encoder_layers # << >>
    /\ Is1D => config.n_freq_targets # None

\* C2 (amended): with an unrecognised decoder_type construction never
\* completes, so no forward pass ever runs; the error is "Decoder type not
\* implemented" whenever the builders that run before _get_regressor
\* succeed, and otherwise the error of the first builder that failed.
C2_UnknownDecoderFailsAtConstruction ==
    ~RecognisedDecoder(config) =>
        /\ ~IsBuilt
        /\ self.regressor = NoRegressor
        /\ (ConstructionFailed /\ ReachedRegressor) => err = DecoderError
        /\ ConstructionFailed => err.kind \in {"NotImplementedError", "TypeError",
                                               "AssertionError"}

C2_Witness ==
    /\ ConstructionFailed
    /\ config.decoder_type = "bogus"
    /\ ReachedRegressor
    /\ err = DecoderError

----------------------------------------------------------------------------
(* C3 *)

----------------------------------------------------------------------------
(* C4 *)

\* C4: when n_head does not divide n_hidden, both encoder-layer constructors
\* raise, and so operator construction fails for every attention variant,
\* 'official' included: no operator is built, no encoder stack exists, and
\* no forward pass ever starts.
C4_HeadCountMustDivide ==
    ~HeadsDivide(config.n_hidden, config.n_head) =>
        /\ ~IsBuilt
        /\ self.encoder_layers = << >>
        /\ trace = << >>
        /\ FourierTransformerEncoderLayerInit(
               config.n_hidden, config.n_head, config.pos_dim,
               config.attention_type, config.encoder_dropout,
               config.return_attn_weight, config.residual_type,
               DefaultPosEmb).err # NoErr
        /\ TransformerEncoderLayerInit(
               config.n_hidden, config.n_head, config.encoder_dropout,
               config.return_attn_weight).err # NoErr

C4_Witness ==
    /\ ConstructionFailed
    /\ config.n_head = 3
    /\ config.n_hidden = 10
    /\ config.attention_type = "official"
    /\ config.encoder_dropout # None
    /\ err.kind = "AssertionError"

----------------------------------------------------------------------------
(* C5 *)

\* C5: spacial_dim = 3 makes construction fail for every decoder type, and
\* the "3D not implemented" error is raised only for an unsupported spatial
\* dimension: never for spacial_dim 1 or 2, nor for one left to its default.
\* The pointwise decoder accepts spacial_dim = 3, and FourierTransformer2D
\* hands a spacial_dim of None on to SpectralRegressor, which raises the 3D
\* error.
C5_ThreeDErrorExactlyFor3D ==
    /\ config.spacial_dim = Some(3) => ~IsBuilt
    /\ (ConstructionFailed /\ err = ThreeDError) =>
           config.spacial_dim \notin {None, Some(1), Some(2)}

----------------------------------------------------------------------------
(* Vocabulary of the forward-pass properties *)

\* every event of stage a comes before every event of stage b
Before(tr, a, b) ==
    \A i, j \in DOMAIN tr : (tr[i].stage = a /\ tr[j].stage = b) => i < j

\* some event of stage m lies between an event of stage a and one of stage b
Between(tr, a, m, b) ==
    \E i, k, j \in DOMAIN tr :
        i < k /\ k < j /\ tr[i].stage = a /\ tr[k].stage = m /\ tr[j].stage = b

IsPrefix(s, t) == Len(s) <= Len(t) /\ s = SubSeq(t, 1, Len(s))

\* the encoder events of a trace carry the layer numbers 1, 2, ... in order
EncodersInStackOrder(tr) ==
    \A k \in DOMAIN tr :
        tr[k].stage = "encoder" =>
            tr[k].layer = Cardinality({m \in 1..k : tr[m].stage = "encoder"})

\* resolution of the tensor the upscaler returns
UpscaledRes == IF self.scaler THEN UpScalerRes(inputs) ELSE inputs.n_s

CropApplies == UpscaledRes # inputs.gh
PadApplies == config.boundary_condition \in {Some("dirichlet"), None}

\* the prediction without its outermost ring of cells
Interior(t) ==
    [p \in (1..(t.h - 2)) \X (1..(t.w - 2)) |-> t.cells[<<p[1] + 1, p[2] + 1>>]]

OnBorder(t, p) == p[1] = 1 \/ p[1] = t.h \/ p[2] = 1 \/ p[2] = t.w

\* the stages of a complete FourierTransformer2D.forward, in order
Stages2D ==
    (IF self.scaler THEN << >> ELSE <<"cat_pos">>)
    \o <<"downscale", "flatten", "feat_extract", "dropout">>
    \o [i \in 1..Len(self.encoder_layers) |-> "encoder"]
    \o <<"reshape", "upscale", "dropout">>
    \o (IF CropApplies THEN <<"crop">> ELSE << >>)
    \o <<"regressor">>
    \o (IF Truthy(config.normalizer) THEN <<"inverse_transform">> ELSE << >>)
    \o (IF PadApplies THEN <<"pad">> ELSE << >>)

----------------------------------------------------------------------------
(* C6 *)

----------------------------------------------------------------------------
(* C7 *)

\* what forward returns, without the ring of cells the padding added
Unpadded ==
    IF Count(trace, "pad") > 0 THEN Interior(out.preds) ELSE out.preds.cells

\* C7: for both operators, with a normalizer configured the returned
\* prediction is the inverse transform of the decoder output, applied
\* exactly once; without one it is the decoder output itself.
\* FourierTransformer.forward never reads self.normalizer, and
\* _get_regressor hands no normalizer to the regressor either.
C7_InverseTransformAppliedOnce ==
    Returned =>
        IF Truthy(config.normalizer)
        THEN /\ Unpadded = InverseTransform(out.decoded)
             /\ Count(trace, "inverse_transform") = 1
        ELSE /\ Unpadded = out.decoded
             /\ Count(trace, "inverse_transform") = 0

----------------------------------------------------------------------------
(* C8 *)

\* C8 as stated: with a scaler configured, the returned prediction has the
\* resolution of the input node grid, whatever the grid argument's
\* resolution and the boundary_condition.
C8_ResolutionAlwaysRestored ==
    (Returned /\ Is2D /\ self.scaler) =>
        out.preds.h = inputs.n /\ out.preds.w = inputs.n

\* C8 (amended): with a scaler configured, the returned resolution is the
\* input resolution, less two when the grid argument's first spatial size
\* differs from it (the crop), plus two when boundary_condition is
\* 'dirichlet' or unset (the padding); it equals the input resolution
\* exactly when both or neither apply, e.g. for a grid of the interior
\* points and a Dirichlet boundary.
C8_ResolutionRestoredWhenCropMatchesPad ==
    (Returned /\ Is2D /\ self.scaler) =>
        LET c == IF inputs.gh # inputs.n THEN 2 ELSE 0
            p == IF PadApplies THEN 2 ELSE 0
        IN  /\ out.preds.h = inputs.n - c + p
            /\ out.preds.w = inputs.n - c + p
            /\ (out.preds.h = inputs.n /\ out.preds.w = inputs.n) <=> (c = p)

C8_Witness ==
    /\ Returned
    /\ Is2D
    /\ self.scaler
    /\ inputs.gh = inputs.n - 2
    /\ inputs.gw = inputs.n - 2
    /\ config.boundary_condition = Some("dirichlet")
    /\ out.preds.h = inputs.n
    /\ out.preds.w = inputs.n

----------------------------------------------------------------------------
(* C9 *)

\* C9 as stated: the upscaled tensor is cropped by one cell on each side of
\* both axes iff its resolution differs from the grid argument's, and the
\* tensor handed to the regressor then has the resolution of grid.
C9_CropAlwaysAlignsWithGrid ==
    (Is2D /\ pc = "f2_regressor") =>
        /\ Count(trace, "crop") = 1
               <=> (UpscaledRes # inputs.gh \/ UpscaledRes # inputs.gw)
        /\ Count(trace, "crop") = 1
               => (x.h = UpscaledRes - 2 /\ x.w = UpscaledRes - 2)
        /\ x.h = inputs.gh
        /\ x.w = inputs.gw

\* C9 (amended): the upscaled tensor is cropped by one cell on each side of
\* both axes iff its first spatial size differs from the grid argument's
\* first spatial size, and is left alone otherwise; the tensor handed to
\* the regressor has the resolution of grid provided grid is square and its
\* size is the upscaled size or exactly two less.
C9_CropAlignsWithInteriorGrid ==
    (Is2D /\ pc = "f2_regressor") =>
        /\ Count(trace, "crop") = 1 <=> UpscaledRes # inputs.gh
        /\ Count(trace, "crop") <= 1
        /\ Count(trace, "crop") = 1
               => (x.h = UpscaledRes - 2 /\ x.w = UpscaledRes - 2)
        /\ Count(trace, "crop") = 0
               => (x.h = UpscaledRes /\ x.w = UpscaledRes)
        /\ (inputs.gh = inputs.gw /\ inputs.gh \in {UpscaledRes, UpscaledRes - 2})
               => (x.h = inputs.gh /\ x.w = inputs.gw)

C9_Witness ==
    /\ Is2D
    /\ pc = "f2_regressor"
    /\ Count(trace, "crop") = 1
    /\ inputs.gh = UpscaledRes - 2
    /\ inputs.gw = UpscaledRes - 2
    /\ x.h = inputs.gh
    /\ x.w = inputs.gw

----------------------------------------------------------------------------
(* C10 *)

\* the decoder output after the optional inverse normalisation
NormalisedOutput ==
    IF Truthy(config.normalizer) THEN InverseTransform(out.decoded) ELSE out.decoded

PaddedPrediction ==
    /\ Count(trace, "pad") = 1
    /\ DOMAIN out.preds.cells = (1..out.preds.h) \X (1..out.preds.w)
    /\ \A p \in DOMAIN out.preds.cells :
           OnBorder(out.preds, p) => out.preds.cells[p] = 0
    /\ Interior(out.preds) = NormalisedOutput

UnpaddedPrediction ==
    /\ Count(trace, "pad") = 0
    /\ out.preds.cells = NormalisedOutput

\* C10 as stated: the 2D prediction gets a one-cell border of zeros around
\* the (inverse-normalised) decoder output when boundary_condition is
\* 'dirichlet', and is returned unpadded for any other setting.
C10_PaddedOnlyForDirichlet ==
    (Returned /\ Is2D) =>
        IF config.boundary_condition = Some("dirichlet")
        THEN PaddedPrediction ELSE UnpaddedPrediction

\* C10 (amended): the 2D prediction gets a one-cell border of zeros around
\* the (inverse-normalised) decoder output when boundary_condition is
\* 'dirichlet' or unset (None), and is returned unpadded for every other
\* value.
C10_PaddedForDirichletOrUnset ==
    (Returned /\ Is2D) =>
        IF config.boundary_condition \in {Some("dirichlet"), None}
        THEN PaddedPrediction ELSE UnpaddedPrediction

C10_Witness ==
    /\ Returned
    /\ Is2D
    /\ config.boundary_condition = None
    /\ Truthy(config.normalizer)
    /\ PaddedPrediction
    /\ out.preds.cells[<<1, 1>>] = 0
    /\ out.preds.cells[<<2, 2>>] # 0

----------------------------------------------------------------------------
(* C11 *)

\* C11: in the dict either operator returns, preds_ortho is non-empty only
\* if return_ortho was requested, attn_weights is non-empty only if
\* return_attn_weight was requested, and the frequency-domain prediction is
\* present only if n_freq_targets > 0.
\* FourierTransformer.forward appends the feature extractor's output to
\* x_ortho when spacial_residual is set, whether or not return_ortho is.
C11_OptionalOutputsOnlyIfRequested ==
    Returned =>
        /\ out.preds_ortho # << >> => IsTrue(config.return_ortho)
        /\ out.attn_weights # << >> => IsTrue(config.return_attn_weight)
        /\ out.preds_freq = "x_freq" => Val(config.n_freq_targets) > 0

----------------------------------------------------------------------------
(* C12 *)

\* a tensor of the shape the encoder stack works on
ProbeTensor ==
    [rank |-> "seq", h |-> 1, w |-> 1, width |-> config.n_hidden, cells |-> NoCells]

\* the layers 1, ..., n in order
UpTo(n) == [i \in 1..n |-> i]

\* C12: attention-weight reporting is a mode fixed at construction.  Every
\* layer of the stack carries the switch it was built with (the operator's
\* return_attn_weight), and a call that returns yields a weight map exactly
\* if the switch is on.  With reporting on, attn_weights receives one map
\* per layer in stack order, and holds exactly num_ft_layers maps (the i-th
\* from the i-th layer) when forward returns; with reporting off it stays
\* empty.
C12_AttnWeightModeFixedAtConstruction ==
    /\ \A i \in DOMAIN self.encoder_layers :
          LET layer == self.encoder_layers[i]
              r == EncoderForward(layer, ProbeTensor, config.pos_dim)
          IN  /\ layer.attn_weight = config.return_attn_weight
              /\ r.err = NoErr => (r.weight # None <=> IsTrue(layer.attn_weight))
    /\ (IsBuilt /\ pc # "fwd_error") =>
          out.attn_weights = IF IsTrue(config.return_attn_weight)
                             THEN UpTo(Count(trace, "encoder")) ELSE << >>
    /\ Returned =>
          /\ Len(self.encoder_layers) = config.num_ft_layers
          /\ IsTrue(config.return_attn_weight) =>
                 out.attn_weights = UpTo(config.num_ft_layers)

C12_Witness ==
    /\ Returned
    /\ IsTrue(config.return_attn_weight)
    /\ Len(out.attn_weights) = NumFtLayers
    /\ out.attn_weights[NumFtLayers] = NumFtLayers
    /\ self.encoder_layers[1].attn_weight = Some(TRUE)

----------------------------------------------------------------------------
(* C13 *)

\* the layer whose residual step has just run
ResidualLayer == self.encoder_layers[Count(trace, "residual")]

\* C13: right after the attention residual step of an encoder layer, the
\* tensor is x + dropout(attn(x)) when residual_type is 'add' and
\* x - dropout(attn(x)) when it is 'minus', cell by cell; with zero dropout
\* the dropout is the identity, so the result is exactly x + attn(x),
\* respectively x - attn(x).
C13_ResidualAddsOrSubtracts ==
    pc = "l_ff" =>
        LET rt == ResidualLayer.residual_type
            sign == IF rt = Some("minus") THEN -1 ELSE 1
        IN  rt \in {Some("add"), Some("minus")} =>
              /\ \A q \in Positions :
                     x.cells[q] = inputs.x_in[q] + sign * inputs.dropped[q]
              /\ ResidualLayer.dropout = 0 =>
                     \A q \in Positions :
                        x.cells[q] = inputs.x_in[q] + sign * inputs.att[q]

C13_Witness ==
    /\ pc = "l_ff"
    /\ ResidualLayer.residual_type = Some("minus")
    /\ ResidualLayer.dropout = 0
    /\ inputs.training
    /\ inputs.att[<<1, 1>>] = 18
    /\ inputs.x_in[<<1, 1>>] = -9
    /\ x.cells[<<1, 1>>] = -27

----------------------------------------------------------------------------
(* C14 *)

\* the layer subtracts the attention output in its residual step
Subtracts(layer) ==
    LET one == [q \in {<<1, 1>>} |-> 1]
    IN  ResidualStep(layer.residual_type, one, one)[<<1, 1>>] = 0

\* C14: for both operators, every encoder layer of a built operator uses the
\* residual rule the operator's residual_type selects: it subtracts the
\* attention output if residual_type is 'minus' and adds it otherwise.
\* FourierTransformer2D._get_encoder does not pass residual_type to the
\* layer, which keeps its default 'add'; and TransformerEncoderLayer, which
\* FourierTransformer builds for every attention_type outside its list,
\* always adds.
C14_ResidualRuleFollowsConfig ==
    IsBuilt =>
        \A i \in DOMAIN self.encoder_layers :
            Subtracts(self.encoder_layers[i]) <=> config.residual_type = Some("minus")

----------------------------------------------------------------------------
(* C15 *)

\* C15: a key the caller left out is treated as None, so leaving a key out
\* never makes construction or a forward pass fail for the mere absence of
\* the key: no AttributeError for a missing attribute is ever raised.
\* _get_setting sets attributes only for the supplied keys and the keys of
\* ADDITIONAL_ATTR; self.dim_feedforward, self.return_attn_weight,
\* self.spacial_dim (2D), self.last_activation (2D) and self.spacial_residual
\* raise AttributeError when the key was left out.
C15_AbsentKeyReadsAsNone ==
    /\ err.kind # "AttributeError"
    /\ config.omitted # {} => pc # "fwd_error"

----------------------------------------------------------------------------
(* C16 *)

\* C16: for both operators, construction ends with the small-gain Xavier
\* re-initialisation of the decoder exactly when the decoder is the
\* pointwise (or convolutional) kind.
\* FourierTransformer2D._initialize ends with _get_regressor: its
\* _initialize_layer is never called.
C16_PointwiseDecoderReinitialised ==
    IsBuilt =>
        (self.regressor.xavier <=> config.decoder_type \in {"pointwise", "convolution"})

----------------------------------------------------------------------------
(* C17 *)

\* C17: in the spectral regressor of a built operator, 1D or 2D, the last
\* spectral layer's activation is the identity if last_activation is False
\* and is kept otherwise (also when last_activation is unset), and no
\* earlier layer's activation is disabled.
\* FourierTransformer._get_regressor does not pass last_activation, so the
\* activation stays for last_activation=False; FourierTransformer2D passes
\* self.last_activation, and "not None" disables the activation when the
\* option is unset.
C17_LastActivationSwitch ==
    (IsBuilt /\ self.regressor.class = "SpectralRegressor") =>
        LET a == self.regressor.activations
        IN  /\ Len(a) = config.num_regressor_layers
            /\ a[Len(a)] = IF config.last_activation = Some(FALSE)
                           THEN "Identity" ELSE "activation"
            /\ \A i \in 1..(Len(a) - 1) : a[i] = "activation"

----------------------------------------------------------------------------
(* C18 *)

\* a pass through the stack has returned
StackReturned == pc = "stack_built" /\ out.returned

\* C18: with the additive positional encoding enabled, a forward pass
\* through the stack applies it exactly once, in the first layer.
\* add_pos_emb is an attribute of every layer, and the stack is made of
\* deep copies of one layer: each of them applies the encoding.
C18_PositionalEncodingAppliedOnce ==
    (StackReturned /\ config.pos_emb) =>
        /\ Count(trace, "pos_emb") = 1
        /\ \A k \in DOMAIN trace :
               trace[k].stage = "pos_emb" => trace[k].layer = 1

----------------------------------------------------------------------------
(* C20 *)

\* the length of the sequence the encoder stack of the running pass works on
EncoderSeqLen == IF Is1D THEN inputs.n ELSE inputs.n_s * inputs.n_s

\* C20: for every attention variant an operator can be built with,
\* 'official' included, each encoder layer called as encoder(x, pos, weight)
\* returns a tensor of the shape (batch, seq_len, n_hidden) of its input:
\* once a layer has been called, no error has ended the pass and the tensor
\* still has that shape.
\* TransformerEncoderLayer.forward concatenates pos to its input, so the
\* tensor handed to MultiheadAttention is n_hidden + pos_dim wide, which the
\* attention module rejects.
C20_EncoderLayerKeepsShape ==
    (IsBuilt /\ Count(trace, "encoder") > 0
            /\ pc \in {"f1_encoder", "f2_encoder", "fwd_error"}) =>
        /\ pc # "fwd_error"
        /\ x.rank = "seq"
        /\ x.h = EncoderSeqLen
        /\ x.width = config.n_hidden

----------------------------------------------------------------------------
(* C19 *)

\* a call of GCN.forward / GAT.forward has returned
GraphReturned == pc = "graph_built" /\ out.returned

\* ReLU was applied to the output of layer j (layers numbered from 0)
ReluAfterLayer(j) ==
    \E k \in DOMAIN trace :
        /\ trace[k] = Ev("graph_layer", j)
        /\ k + 1 \in DOMAIN trace
        /\ trace[k + 1] = Ev("relu", j)

\* C19: in GCN and in GAT, with activation enabled and num_gcn_layers >= 2,
\* ReLU is applied to the output of every layer but the last, and not to
\* the output of the last.
\* The loop over self.gcn_layers[:-1] starts at the second layer: the output
\* of gcn_layer0 / gat_layer0 goes to the next layer without ReLU.
C19_ReluBetweenConsecutiveLayers ==
    (GraphReturned /\ IsTrue(config.activation) /\ config.num_gcn_layers >= 2) =>
        /\ \A j \in 0..(config.num_gcn_layers - 2) : ReluAfterLayer(j)
        /\ ~ReluAfterLayer(config.num_gcn_layers - 1)

----------------------------------------------------------------------------
(* C21 *)

\* the layer of the running pass with its attn_weight switch set to flag
Twin(flag) == [ResidualLayer EXCEPT !.attn_weight = Some(flag)]

\* C21: reporting the attention weights does not alter the forward result.
\* For two layers that differ only in attn_weight and are given the same
\* input and the same attention output, under zero dropout the residual step
\* yields the same tensor, the one the running layer holds, and whatever
\* tensor the rest of the layer makes of it is the tensor both return.
C21_AttnWeightDoesNotAlterResult ==
    (pc = "l_ff" /\ ResidualLayer.dropout = 0) =>
        /\ \A mask \in [Positions -> BOOLEAN] :
              /\ AttnResidual(Twin(TRUE), inputs.x_in, inputs.att, mask,
                              inputs.training) = x.cells
              /\ AttnResidual(Twin(FALSE), inputs.x_in, inputs.att, mask,
                              inputs.training) = x.cells
        /\ \A cells \in CellMaps :
              /\ LayerReturn(Twin(TRUE), cells, LayerIndex).tensor = cells
              /\ LayerReturn(Twin(FALSE), cells, LayerIndex).tensor = cells

C21_Witness ==
    /\ pc = "l_ff"
    /\ IsTrue(ResidualLayer.attn_weight)
    /\ ResidualLayer.dropout = 0
    /\ inputs.training
    /\ inputs.x_in[<<1, 1>>] = -9
    /\ inputs.att[<<1, 1>>] = 18
    /\ x.cells[<<1, 1>>] = 9
    /\ Len(out.attn_weights) = 1

----------------------------------------------------------------------------
(* C23 *)

\* C23: the dropout rate of every layer of a built stack, in percent: for
\* the 'linear' and 'softmax' variants at least 10 and never smaller than the
\* configured rate; for the other variants the configured rate, or 10 when
\* none is configured.  The constructor sets the rate of a 'linear' or
\* 'softmax' layer to 10 whatever was configured, so a configured 50 becomes
\* 10.
C23_DropoutRateOfVariants ==
    pc # "stack_init" =>
        \A i \in DOMAIN self.encoder_layers :
            LET used == self.encoder_layers[i].dropout
                conf == config.encoder_dropout
            IN  IF config.attention_type \in {"linear", "softmax"}
                THEN used >= 10 /\ (conf # None => used >= Val(conf))
                ELSE used = (IF conf = None THEN 10 ELSE Val(conf))

----------------------------------------------------------------------------
(* C22 *)

\* C22: a PointwiseRegressor built with spacial_fc = False ignores grid:
\* whatever grid the call was given, the call with any other grid, None
\* included, and the same tensor and dropout masks returns the same output
\* without error.
C22_GridIgnoredWithoutSpacialFc ==
    (pc = "reg_called" /\ ~self.regressor.spacial_fc) =>
        /\ out.returned
        /\ \A grid \in GridChoices :
              LET r == PointwiseForward(self.regressor, inputs.x_in, grid,
                                        inputs.masks, inputs.training)
              IN  r.err = NoErr /\ r.val = out.preds.cells

C22_Witness ==
    /\ pc = "reg_called"
    /\ ~self.regressor.spacial_fc
    /\ self.regressor.num_layers = NumRegressorLayers
    /\ inputs.grid # None
    /\ inputs.x_in[<<1, 1>>] = 18
    /\ self.regressor.params.w = 1
    /\ ~inputs.training
    /\ out.returned
    /\ out.preds.cells[<<1, 1>>] = 18

----------------------------------------------------------------------------
(* C25 *)

\* C25: for a pooling method it implements, pooling_2d returns an array whose
\* last two dimensions are (m // ky, n // kx) without padding and
\* (ceil(m / ky), ceil(n / kx)) with padding, also when m or n is an exact
\* multiple of the kernel size.  With padding and m an exact multiple of ky,
\* _sy is 0 and mat_pad[..., sy:-_sy, sx:-_sx] selects no row, so the
\* assignment of mat raises a ValueError.
C25_PoolingShape ==
    (pc = "pool_called" /\ config.method \in {"max", "mean"}) =>
        /\ out.returned
        /\ out.preds.h = (IF config.padding THEN Ceil(config.m, config.ky)
                          ELSE config.m \div config.ky)
        /\ out.preds.w = (IF config.padding THEN Ceil(config.n, config.kx)
                          ELSE config.n \div config.kx)

----------------------------------------------------------------------------
(* C24 *)

\* the events of a training step, in the order the claim gives
BatchOrder == <<"zero_grad", "forward", "loss", "backward", "clip", "step", "sched">>

\* the events of batch b of the running epoch, in the order they happened
EventsOf(b) ==
    LET OfBatch(e) == e.layer = b
    IN  Stages(SelectSeq(trace, OfBatch))

\* C24: in every training step the events occur in the order zero_grad,
\* forward, loss, backward, clip, step and, if a scheduler was handed to the
\* step, the scheduler step; a finished step has all of them; the parameters
\* the forward pass of a batch read are the model's parameters until the
\* backward pass of the batch has completed; and no event of a batch
\* follows an event of a later batch.
C24_TrainingStepOrder ==
    pc \notin {"train_init"} =>
        /\ \A b \in 1..NumBatches :
              /\ IsPrefix(EventsOf(b), BatchOrder)
              /\ (b < self.batch \/ (b = self.batch /\ pc = "b_return")
                     \/ pc = "epoch_end") =>
                    EventsOf(b) = IF Truthy(BatchScheduler) THEN BatchOrder
                                  ELSE SubSeq(BatchOrder, 1, Len(BatchOrder) - 1)
        /\ \A i, j \in DOMAIN trace : i < j => trace[i].layer <= trace[j].layer
        /\ \A b \in 1..NumBatches :
              (b = self.batch /\ Count(trace, "forward") = b
                  /\ (Count(trace, "backward") < b \/ self.grads = "computed")) =>
                 self.params = inputs.read_params

C24_Witness ==
    /\ pc = "b_return"
    /\ config.train_batch = "train_batch_darcy"
    /\ self.epoch = 1
    /\ self.batch = NumBatches
    /\ Truthy(BatchScheduler)
    /\ Len(trace) = NumBatches * Len(BatchOrder)
    /\ self.params = 2 * NumBatches
    /\ inputs.read_params = 2 * NumBatches - 1

----------------------------------------------------------------------------
(* C26 *)

\* the number of epochs at the end of vals since the last epoch whose metric
\* improved on every earlier one
NonImproving(vals, mode) ==
    LET IsBest(k) == \A j \in 1..(k - 1) :
                        IF mode = "max" THEN vals[k] > vals[j] ELSE vals[k] < vals[j]
        last == CHOOSE k \in 0..Len(vals) :
                   /\ k > 0 => IsBest(k)
                   /\ \A l \in (k + 1)..Len(vals) : ~IsBest(l)
    IN  Len(vals) - last

\* C26: run_train stops early at the end of the first epoch at which the
\* number of consecutive epochs without improvement exceeds patience, and
\* runs no further epoch; in every other case it runs all the requested
\* epochs; with a patience of None or 0 it never stops early.
C26_EarlyStopping ==
    pc \notin {"train_init"} =>
        LET vals == self.loss_val
            limited == config.patience \notin {None, Some(0)}
            Exceeds(k) == /\ limited
                          /\ NonImproving(SubSeq(vals, 1, k), config.mode)
                                 > Val(config.patience)
            ended == pc \in {"train_return", "train_done", "train_error"}
        IN  /\ self.stopped <=> (Len(vals) >= 1 /\ Exceeds(Len(vals)))
            /\ \A k \in 1..(Len(vals) - 1) : ~Exceeds(k)
            /\ self.stopped => ended
            /\ (ended /\ ~self.stopped) => Len(vals) = config.epochs
            /\ ~limited => ~self.stopped

C26_Witness ==
    /\ pc = "train_done"
    /\ self.stopped
    /\ config.patience = Some(1)
    /\ config.mode = "max"
    /\ self.loss_val = <<2, 1, 2>>
    /\ config.epochs = MaxEpochs

----------------------------------------------------------------------------
(* C27 *)

\* C27: every time run_train records a new best validation metric, the
\* weights are saved in that same epoch, for mode 'min' and for mode 'max':
\* the last save is of the epoch of the best metric.  The branch of mode
\* 'max' does not call torch.save.
C27_BestWeightsSaved ==
    (pc \notin {"train_init"} /\ self.best_val_epoch # None) =>
        /\ self.saved # None
        /\ Val(self.saved).epoch = Val(self.best_val_epoch)

----------------------------------------------------------------------------
(* C28 *)

\* C28: for at least one requested epoch, run_train returns a result, and
\* the result it returns, which is the one last written to result_name,
\* holds the training loss and the validation metric of every executed
\* epoch, the epoch of an early stop included.  The loop is left by break
\* before the result of the stopping epoch is built and written.
C28_ResultCoversEveryEpoch ==
    (pc \in {"train_done", "train_error"} /\ config.epochs >= 1) =>
        /\ pc = "train_done"
        /\ out.result.loss_train = self.loss_train
        /\ out.result.loss_val = self.loss_val
        /\ self.result_file = Some(out.result)

----------------------------------------------------------------------------
(* C29 *)

\* the numbers of the graph layers the running pass has applied, in order
GraphLayersApplied ==
    LET IsLayer(e) == e.stage = "graph_layer"
        applied == SelectSeq(trace, IsLayer)
    IN  [k \in DOMAIN applied |-> applied[k].layer]

\* C29: for every num_gcn_layers >= 1 a GCN or GAT holds exactly
\* num_gcn_layers graph layers, and its forward raises no error and, when it
\* has returned, has applied each layer exactly once, in order; a one-layer
\* extractor included.  With one layer self.gcn_layers is empty and
\* self.gcn_layers[-1] raises an IndexError.
C29_EveryGraphLayerAppliedOnce ==
    /\ pc # "graph_init" => 1 + NumFurtherLayers(config) = config.num_gcn_layers
    /\ pc # "graph_error"
    /\ GraphReturned =>
          GraphLayersApplied = [k \in 1..config.num_gcn_layers |-> k - 1]

----------------------------------------------------------------------------
(* C30 *)

\* C30: every call of TransformerEncoderLayer.forward hands a supplied
\* src_mask to the self-attention whenever it is not None, and a supplied
\* src_key_padding_mask whenever it is not None, each independently of the
\* other.  The layer passes the masks only when both are given: with one of
\* them None it calls self_attn(src, src, src) and drops the other.
C30_SuppliedMaskReachesAttention ==
    pc \in {"wrap_layer", "wrap_error"} =>
        \A i \in DOMAIN inputs.passed :
            /\ inputs.mask # None =>
                  inputs.passed[i].attn_mask = inputs.mask
            /\ inputs.src_key_padding_mask # None =>
                  inputs.passed[i].key_padding_mask = inputs.src_key_padding_mask

====
